---- MODULE Spec2Model ----
(***************************************************************************)
(* Offer settlement engine and demand visibility resolver of gusto-api     *)
(* (src/routes/offers.ts, admin.ts, demands.ts, categories routes).  The   *)
(* relational store is the shared state; every request handler is a        *)
(* process that advances from one awaited database call to the next, so    *)
(* handlers of concurrent requests interleave at the awaits.               *)
(*                                                                         *)
(* Money is kept in thousandths of a lira, so that (price / 1000) * rate   *)
(* is the integer price * rate and no rounding enters the model.           *)
(***************************************************************************)
EXTENDS Integers, Sequences, FiniteSets, TLC

\* ---------------------------------------------------------------- bounds
MaxReqs == 2
MaxOffers == 2
MaxPanelOps == 1

\* ------------------------------------------------------- the fixed world
Providers == {"p1", "p2"}
Receivers == {"r1"}
Admins == {"a1"}
Users == Providers \cup Receivers \cup Admins

Demands == {"d1", "d2"}
MissingDemand == "d0"

Reqs == 1..MaxReqs
OfferIds == 1..MaxOffers

DemandStatuses == {"ACTIVE", "CLOSED", "COMPLETED", "CANCELLED"}
OfferStatuses == {"PENDING", "ACCEPTED", "REJECTED", "COMPLETED"}

\* User.userType as authenticate reads it from the user row
userType(u) == IF u \in Providers THEN "PROVIDER" ELSE "RECEIVER"

\* User.isAdmin as requireAdmin reads it
isAdmin(u) == u \in Admins

\* Demand.userId: every demand of the model belongs to receiver r1
demandUserId(d) == "r1"

\* Category.commissionRate of the demands' categories; the empty set is NULL.
\* d1 is in a category with rate 10, d2 in one with rate 10 or without a rate
CommissionRates ==
  { [d \in Demands |-> {10}],
    [d \in Demands |-> IF d = "d1" THEN {10} ELSE {}] }

\* User.balance at the start, in thousandths (100.000 TL and 0 TL)
InitialBalance(u) == IF u = "p1" THEN 100000 ELSE 0

\* request bodies: price is a JSON number or a string of decimal digits
PriceBodies ==
  { [type |-> "number", num |-> 7500, str |-> <<>>],
    [type |-> "string", num |-> 0, str |-> <<5, 0, 0, 0>>] }

\* Category rows; NullCategory is the NULL parentId of a root category and
\* UnknownCategory an id or name that no row has
Categories == {"A", "B", "C", "D"}
NullCategory == "null"
UnknownCategory == "X"

\* the proper ancestors of category c under parent relation f, found by
\* following parentId at most n times
RECURSIVE walkUp(_, _, _)
walkUp(f, c, n) ==
  IF n = 0 THEN {}
  ELSE IF c \notin DOMAIN f THEN {}
  ELSE IF f[c] = NullCategory THEN {}
  ELSE {f[c]} \cup walkUp(f, f[c], n - 1)

ancestorsOf(f, c) == walkUp(f, c, Cardinality(DOMAIN f) + 1)

\* no category is its own ancestor
Acyclic(f) == \A c \in DOMAIN f : c \notin ancestorsOf(f, c)

\* the category forests that category creation can build
CategoryTrees ==
  {f \in [Categories -> Categories \cup {NullCategory}] : Acyclic(f)}

\* A with children B and C, and D under B
ExampleTree ==
  [c \in Categories |->
     IF c = "A" THEN NullCategory ELSE IF c = "D" THEN "B" ELSE "A"]

\* Demand.categoryId: d1 is in category D, d2 in category A
demandCategoryId(d) == IF d = "d1" THEN "D" ELSE "A"

VARIABLES
  balance,       \* User.balance of every provider (committed value)
  demandStatus,  \* Demand.status
  rate,          \* Category.commissionRate of the demand's category
  offers,        \* Offer rows by id
  notifications, \* Notification rows
  offerSeq,      \* number of Offer ids issued so far
  rowLock,       \* the open transaction holding the row lock of a user
  panelOps,      \* number of single-statement edit requests served
  req,           \* the request handlers
  parentId,      \* Category.parentId of every Category row
  userCategories,\* UserCategory rows: the category ids of every user
  demandRow,     \* Demand.categoryId and Demand.isApproved
  view,          \* the answer of the demand read request
  catReq,        \* the category request handlers
  userExists,    \* the User rows that have not been deleted
  reviews,       \* Review rows by id
  reviewSeq,     \* number of Review ids issued so far
  userRating,    \* User.rating and User.ratingCount
  revReq,        \* the review create and delete handlers
  demandStore,   \* the Demand rows made by POST /api/demands, by id
  demandSeq,     \* number of Demand ids issued by POST /api/demands
  dmReq,         \* the demand create handlers
  meReq,         \* the PUT /api/users/me handler
  otpStore,      \* otpStore of sms.service: phone -> code and expiresAt
  now,           \* Date.now(), in minutes
  otpLog         \* the sendOTP and verifyOTP calls made so far

\* the offer settlement tables and handlers
offerVars == <<balance, demandStatus, rate, offers, notifications, offerSeq,
               rowLock, panelOps, req>>

\* the category, subscription and demand visibility tables and handlers
visVars == <<parentId, userCategories, demandRow, view, catReq>>

\* the Review table, the rating columns and the review handlers
reviewVars == <<reviews, reviewSeq, userRating, revReq>>

\* the demands made by POST /api/demands and their handlers
demandVars == <<demandStore, demandSeq, dmReq>>

\* the one-time passwords of the SMS service
otpVars == <<otpStore, now, otpLog>>

\* what the offer, category and demand read handlers do not write
moreVars == <<userExists, reviewVars, demandVars, meReq, otpVars>>

vars == <<balance, demandStatus, rate, offers, notifications, offerSeq,
          rowLock, panelOps, req, parentId, userCategories, demandRow, view,
          catReq, userExists, reviews, reviewSeq, userRating, revReq,
          demandStore, demandSeq, dmReq, meReq, otpStore, now, otpLog>>

\* ------------------------------------------------------ pure functions

RECURSIVE parseDigits(_)
parseDigits(s) ==
  IF s = <<>> THEN 0
  ELSE 10 * parseDigits(SubSeq(s, 1, Len(s) - 1)) + s[Len(s)]

\* const parsedPrice = typeof price === 'string' ? parseFloat(price) : price
parsedPrice(price) ==
  IF price.type = "string" THEN parseDigits(price.str) ELSE price.num

\* demand.category?.commissionRate || 0
commissionRate(r) ==
  IF r = {} THEN 0
  ELSE LET x == CHOOSE y \in r : TRUE IN IF x = 0 THEN 0 ELSE x

\* (parsedPrice / 1000) * commissionRate, in thousandths
commissionAmountPercent(p, r) == (p * commissionRate(r)) * 10
commissionAmount(p, r) == p * commissionRate(r)

\* provider.balance < commissionAmount
insufficientBalanceLeq(bal, c) == bal <= c
insufficientBalance(bal, c) == bal < c

\* prisma.offer.findFirst({ where: { demandId, providerId } })
existingOfferNever(d, p) == FALSE
existingOffer(d, p) ==
  \E id \in DOMAIN offers :
    offers[id].demandId = d /\ offers[id].providerId = p

\* offer.demand?.userId !== req.userId
notDemandOwnerProvider(id, caller) == offers[id].providerId # caller
notDemandOwner(id, caller) == demandUserId(offers[id].demandId) # caller

\* prisma.offer.update({ where: { id }, data: { status } })
updateOfferStatusOfDemand(id, status) ==
  [i \in DOMAIN offers |->
     IF offers[i].demandId = offers[id].demandId
     THEN [offers[i] EXCEPT !.status = IF i = id THEN status ELSE "REJECTED"]
     ELSE offers[i]]
updateOfferStatus(id, status) == [offers EXCEPT ![id].status = status]

\* the guards of PATCH /:id/complete on the offer row it read: the AppError
\* thrown, or code 0 when the request may proceed
completeRefusalAnyCaller(o, caller) ==
  IF o.status # "ACCEPTED" THEN [code |-> 400, why |-> "notAccepted"]
  ELSE IF o.providerCompleted THEN [code |-> 400, why |-> "completed"]
  ELSE [code |-> 0, why |-> ""]
completeRefusal(o, caller) ==
  IF o.providerId # caller THEN [code |-> 403, why |-> "provider"]
  ELSE IF o.status # "ACCEPTED" THEN [code |-> 400, why |-> "notAccepted"]
  ELSE IF o.providerCompleted THEN [code |-> 400, why |-> "completed"]
  ELSE [code |-> 0, why |-> ""]

\* what a failed prisma.$transaction leaves of the balance: the decrement
\* was private to the transaction and is rolled back
rollbackBalanceKeepsDebit(bal, debit) == bal - debit
rollbackBalance(bal, debit) == bal

\* the Offer table accepts a second row of one (demandId, providerId): it
\* has no unique index on the pair
offerRowAccepted(d, p) == TRUE

\* ------------------------------------------------------------ requests

NoReq ==
  [kind |-> "none", pc |-> "idle", caller |-> "a1", demandId |-> MissingDemand,
   offerId |-> 0, providerId |-> "a1", price |-> 0, status |-> "PENDING",
   rate |-> {}, balance |-> 0, commissionAmount |-> 0, txDebit |-> 0,
   committed |-> FALSE, resp |-> 0, err |-> "", newBalance |-> 0]

\* handlers are started in slot order
CanStart(r) ==
  /\ req[r].pc = "idle"
  /\ IF r = 1 THEN TRUE ELSE req[r - 1].pc # "idle"

\* a request answered before it read anything it keeps
Rejected(kind, caller, code, why) ==
  [NoReq EXCEPT !.kind = kind, !.caller = caller, !.pc = "done",
                !.resp = code, !.err = why]

Fail(r, code, why) ==
  [req EXCEPT ![r].pc = "done", ![r].resp = code, ![r].err = why]

\* no demand read and no category request was made; the categories are the
\* example tree, no user has a subscription, every demand is approved
NoView ==
  [kind |-> "none", caller |-> "a1", category |-> {}, status |-> {},
   demandId |-> MissingDemand, allowed |-> {}, demands |-> {}, resp |-> 0]

NoCatReq ==
  [kind |-> "none", pc |-> "idle", route |-> "admin", id |-> NullCategory,
   parentId |-> NullCategory, currentParent |-> NullCategory, resp |-> 0]

\* no review request was made
NoRevReq ==
  [kind |-> "none", pc |-> "idle", caller |-> "a1", reviewedUserId |-> "a1",
   rating |-> 0, reviewId |-> 0, sum |-> 0, length |-> 0, resp |-> 0]

\* no demand was posted
NoDmReq ==
  [kind |-> "none", pc |-> "idle", caller |-> "a1", nextDemandNumber |-> 0,
   resp |-> 0]

\* no profile update was made; oldCategories are the UserCategory rows of
\* the caller when the request arrived
NoMeReq ==
  [pc |-> "idle", caller |-> "a1", categories |-> {}, oldCategories |-> {},
   categoryRecords |-> {}, resp |-> 0]

\* User.rating (sum / length, 0 / 1 for the literal 0) and User.ratingCount
\* of a user nobody has reviewed
NoRating == [sum |-> 0, length |-> 1, ratingCount |-> 0]

\* no sendOTP and no verifyOTP call was made
NoOtpLog ==
  [op |-> "none", phone |-> <<>>, otp |-> "", result |-> FALSE,
   sentAt |-> <<>>, accepted |-> {}]

InitUsers == userExists = [u \in Users |-> TRUE]

InitReviews ==
  /\ reviews = <<>>
  /\ reviewSeq = 0
  /\ userRating = [u \in Users |-> NoRating]
  /\ revReq = [r \in Reqs |-> NoRevReq]

InitDemands ==
  /\ demandStore = <<>>
  /\ demandSeq = 0
  /\ dmReq = [r \in Reqs |-> NoDmReq]

InitMe == meReq = NoMeReq

InitOtp ==
  /\ otpStore = <<>>
  /\ now = 0
  /\ otpLog = NoOtpLog

\* every user exists; no review, no posted demand, no profile update and no
\* one-time password
InitMore == InitUsers /\ InitReviews /\ InitDemands /\ InitMe /\ InitOtp

InitVisibility ==
  /\ parentId = ExampleTree
  /\ userCategories = [u \in Users |-> {}]
  /\ demandRow = [d \in Demands |->
                    [categoryId |-> demandCategoryId(d), isApproved |-> TRUE]]
  /\ view = NoView
  /\ catReq = [r \in Reqs |-> NoCatReq]
  /\ InitMore

Init ==
  /\ balance = [u \in Providers |-> InitialBalance(u)]
  /\ demandStatus = [d \in Demands |-> "ACTIVE"]
  /\ rate \in CommissionRates
  /\ offers = <<>>
  /\ notifications = {}
  /\ offerSeq = 0
  /\ rowLock = [u \in Providers |-> 0]
  /\ panelOps = 0
  /\ req = [r \in Reqs |-> NoReq]
  /\ InitVisibility

\* ------------------------------------------- POST /api/offers (provider)

\* authenticate (the caller's User row exists), authorizeProvider, price
\* validation, prisma.demand.findUnique and the status check
CreateOfferFindDemand(r, caller, d, price) ==
  /\ CanStart(r)
  /\ userExists[caller]
  /\ LET q == [NoReq EXCEPT !.kind = "create", !.caller = caller,
                            !.demandId = d, !.providerId = caller,
                            !.price = parsedPrice(price)]
     IN req' =
          IF userType(caller) # "PROVIDER"
          THEN [req EXCEPT ![r] = Rejected("create", caller, 403, "role")]
          ELSE IF parsedPrice(price) < 0
          THEN [req EXCEPT ![r] = Rejected("create", caller, 400, "price")]
          ELSE IF d \notin Demands
          THEN [req EXCEPT ![r] = Rejected("create", caller, 404, "demand")]
          ELSE IF demandStatus[d] # "ACTIVE"
          THEN [req EXCEPT ![r] = [q EXCEPT !.pc = "done", !.resp = 400,
                                           !.err = "inactive"]]
          ELSE [req EXCEPT ![r] = [q EXCEPT !.pc = "findExisting",
                                           !.rate = rate[d]]]
  /\ UNCHANGED visVars
  /\ UNCHANGED moreVars
  /\ UNCHANGED <<balance, demandStatus, rate, offers, notifications,
                 offerSeq, rowLock, panelOps>>

\* prisma.offer.findFirst and the duplicate check
CreateOfferFindExisting(r) ==
  /\ req[r].kind = "create" /\ req[r].pc = "findExisting"
  /\ req' = IF existingOffer(req[r].demandId, req[r].caller)
            THEN Fail(r, 400, "duplicate")
            ELSE [req EXCEPT ![r].pc = "findProvider"]
  /\ UNCHANGED visVars
  /\ UNCHANGED moreVars
  /\ UNCHANGED <<balance, demandStatus, rate, offers, notifications,
                 offerSeq, rowLock, panelOps>>

\* prisma.user.findUnique and the provider check, the commission and the
\* balance check
CreateOfferFindProvider(r) ==
  /\ req[r].kind = "create" /\ req[r].pc = "findProvider"
  /\ LET bal == balance[req[r].caller]
         c == commissionAmount(req[r].price, req[r].rate)
     IN req' =
          IF ~userExists[req[r].caller]
          THEN Fail(r, 404, "provider")
          ELSE IF insufficientBalance(bal, c)
          THEN [req EXCEPT ![r].pc = "done", ![r].resp = 400,
                           ![r].err = "balance", ![r].balance = bal,
                           ![r].commissionAmount = c]
          ELSE [req EXCEPT ![r].pc = "txUpdate", ![r].balance = bal,
                           ![r].commissionAmount = c]
  /\ UNCHANGED visVars
  /\ UNCHANGED moreVars
  /\ UNCHANGED <<balance, demandStatus, rate, offers, notifications,
                 offerSeq, rowLock, panelOps>>

\* tx.user.update({ balance: { decrement } }): the statement takes the row
\* lock of the user and its write stays private to the transaction; it
\* throws if the User row is gone
CreateOfferTxUpdate(r) ==
  /\ req[r].kind = "create" /\ req[r].pc = "txUpdate"
  /\ IF userExists[req[r].caller]
     THEN /\ rowLock[req[r].caller] = 0
          /\ rowLock' = [rowLock EXCEPT ![req[r].caller] = r]
          /\ req' = [req EXCEPT ![r].pc = "txCreate",
                                ![r].txDebit = req[r].commissionAmount]
     ELSE /\ rowLock' = rowLock
          /\ req' = Fail(r, 500, "store")
  /\ UNCHANGED visVars
  /\ UNCHANGED moreVars
  /\ UNCHANGED <<balance, demandStatus, rate, offers, notifications,
                 offerSeq, panelOps>>

\* the row tx.offer.create inserts
newOffer(r) ==
  [demandId |-> req[r].demandId, providerId |-> req[r].caller,
   price |-> req[r].price, status |-> "PENDING",
   providerCompleted |-> FALSE, by |-> r]

insertOffer(o) ==
  [id \in DOMAIN offers \cup {offerSeq + 1} |->
     IF id = offerSeq + 1 THEN o ELSE offers[id]]

\* tx.offer.create and the commit of the transaction
CreateOfferTxCreate(r) ==
  /\ req[r].kind = "create" /\ req[r].pc = "txCreate"
  /\ offerSeq < MaxOffers
  /\ offerRowAccepted(req[r].demandId, req[r].caller)
  /\ balance' = [balance EXCEPT ![req[r].caller] = @ - req[r].txDebit]
  /\ offers' = insertOffer(newOffer(r))
  /\ offerSeq' = offerSeq + 1
  /\ rowLock' = [rowLock EXCEPT ![req[r].caller] = 0]
  /\ req' = [req EXCEPT ![r].pc = "notify", ![r].committed = TRUE,
                        ![r].offerId = offerSeq + 1]
  /\ UNCHANGED visVars
  /\ UNCHANGED moreVars
  /\ UNCHANGED <<demandStatus, rate, notifications, panelOps>>

\* prisma.notification.create and the 201 response
CreateOfferNotify(r) ==
  /\ req[r].kind = "create" /\ req[r].pc = "notify"
  /\ notifications' = notifications \cup
       {[by |-> r, userId |-> demandUserId(req[r].demandId),
         type |-> "NEW_OFFER", offerId |-> req[r].offerId]}
  /\ req' = [req EXCEPT ![r].pc = "done", ![r].resp = 201,
                        ![r].newBalance =
                          req[r].balance - req[r].commissionAmount]
  /\ UNCHANGED visVars
  /\ UNCHANGED moreVars
  /\ UNCHANGED <<balance, demandStatus, rate, offers, offerSeq, rowLock,
                 panelOps>>

\* a storage failure of tx.user.update: nothing was written
CreateOfferTxUpdateFails(r) ==
  /\ req[r].kind = "create" /\ req[r].pc = "txUpdate"
  /\ req' = Fail(r, 500, "store")
  /\ UNCHANGED visVars
  /\ UNCHANGED moreVars
  /\ UNCHANGED <<balance, demandStatus, rate, offers, notifications,
                 offerSeq, rowLock, panelOps>>

\* a storage failure of tx.offer.create: the transaction is rolled back
CreateOfferTxCreateFails(r) ==
  /\ req[r].kind = "create" /\ req[r].pc = "txCreate"
  /\ balance' = [balance EXCEPT
                   ![req[r].caller] = rollbackBalance(@, req[r].txDebit)]
  /\ rowLock' = [rowLock EXCEPT ![req[r].caller] = 0]
  /\ req' = Fail(r, 500, "store")
  /\ UNCHANGED visVars
  /\ UNCHANGED moreVars
  /\ UNCHANGED <<demandStatus, rate, offers, notifications, offerSeq,
                 panelOps>>

\* a storage failure of prisma.notification.create: next(error)
CreateOfferNotifyFails(r) ==
  /\ req[r].kind = "create" /\ req[r].pc = "notify"
  /\ req' = Fail(r, 500, "store")
  /\ UNCHANGED visVars
  /\ UNCHANGED moreVars
  /\ UNCHANGED <<balance, demandStatus, rate, offers, notifications,
                 offerSeq, rowLock, panelOps>>

CreateOfferFault ==
  \/ \E r \in Reqs : CreateOfferTxUpdateFails(r)
  \/ \E r \in Reqs : CreateOfferTxCreateFails(r)
  \/ \E r \in Reqs : CreateOfferNotifyFails(r)

CreateOffer ==
  \/ \E r \in Reqs, caller \in Users, d \in Demands \cup {MissingDemand},
        price \in PriceBodies : CreateOfferFindDemand(r, caller, d, price)
  \/ \E r \in Reqs : CreateOfferFindExisting(r)
  \/ \E r \in Reqs : CreateOfferFindProvider(r)
  \/ \E r \in Reqs : CreateOfferTxUpdate(r)
  \/ \E r \in Reqs : CreateOfferTxCreate(r)
  \/ \E r \in Reqs : CreateOfferNotify(r)

\* ------------------------------ PATCH /api/offers/:id/status (accept/reject)

\* prisma.offer.findUnique({ include: { demand } }) and the owner check
UpdateOfferStatusFind(r, caller, id, status) ==
  /\ CanStart(r)
  /\ LET q == [NoReq EXCEPT !.kind = "status", !.caller = caller,
                            !.offerId = id, !.status = status]
     IN req' =
          IF id \notin DOMAIN offers
          THEN [req EXCEPT ![r] = Rejected("status", caller, 404, "offer")]
          ELSE IF notDemandOwner(id, caller)
          THEN [req EXCEPT ![r] =
                  [q EXCEPT !.pc = "done", !.resp = 403, !.err = "owner",
                            !.demandId = offers[id].demandId,
                            !.providerId = offers[id].providerId]]
          ELSE [req EXCEPT ![r] =
                  [q EXCEPT !.pc = "updateOffer",
                            !.demandId = offers[id].demandId,
                            !.providerId = offers[id].providerId]]
  /\ UNCHANGED visVars
  /\ UNCHANGED moreVars
  /\ UNCHANGED <<balance, demandStatus, rate, offers, notifications,
                 offerSeq, rowLock, panelOps>>

\* prisma.offer.update({ data: { status } }); a row deleted meanwhile makes
\* the update throw
UpdateOfferStatusUpdate(r) ==
  /\ req[r].kind = "status" /\ req[r].pc = "updateOffer"
  /\ IF req[r].offerId \in DOMAIN offers
     THEN /\ offers' = updateOfferStatus(req[r].offerId, req[r].status)
          /\ req' = [req EXCEPT ![r].pc = "notify", ![r].committed = TRUE]
     ELSE /\ offers' = offers
          /\ req' = Fail(r, 500, "gone")
  /\ UNCHANGED visVars
  /\ UNCHANGED moreVars
  /\ UNCHANGED <<balance, demandStatus, rate, notifications, offerSeq,
                 rowLock, panelOps>>

\* prisma.notification.create for the provider
UpdateOfferStatusNotify(r) ==
  /\ req[r].kind = "status" /\ req[r].pc = "notify"
  /\ notifications' = notifications \cup
       {[by |-> r, userId |-> req[r].providerId, type |-> "OFFER_STATUS",
         offerId |-> req[r].offerId]}
  /\ req' = IF req[r].status = "ACCEPTED"
            THEN [req EXCEPT ![r].pc = "closeDemand"]
            ELSE [req EXCEPT ![r].pc = "done", ![r].resp = 200]
  /\ UNCHANGED visVars
  /\ UNCHANGED moreVars
  /\ UNCHANGED <<balance, demandStatus, rate, offers, offerSeq, rowLock,
                 panelOps>>

\* prisma.demand.update({ data: { status: 'CLOSED' } }) and the response
UpdateOfferStatusCloseDemand(r) ==
  /\ req[r].kind = "status" /\ req[r].pc = "closeDemand"
  /\ demandStatus' = [demandStatus EXCEPT ![req[r].demandId] = "CLOSED"]
  /\ req' = [req EXCEPT ![r].pc = "done", ![r].resp = 200]
  /\ UNCHANGED visVars
  /\ UNCHANGED moreVars
  /\ UNCHANGED <<balance, rate, offers, notifications, offerSeq, rowLock,
                 panelOps>>

UpdateOfferStatus ==
  \/ \E r \in Reqs, caller \in Users, id \in OfferIds,
        status \in {"ACCEPTED", "REJECTED"} :
        UpdateOfferStatusFind(r, caller, id, status)
  \/ \E r \in Reqs : UpdateOfferStatusUpdate(r)
  \/ \E r \in Reqs : UpdateOfferStatusNotify(r)
  \/ \E r \in Reqs : UpdateOfferStatusCloseDemand(r)

\* ------------------------------------------ PATCH /api/offers/:id/complete

\* prisma.offer.findUnique and the provider, status and completed checks
CompleteOfferFind(r, caller, id) ==
  /\ CanStart(r)
  /\ LET q == [NoReq EXCEPT !.kind = "complete", !.caller = caller,
                            !.offerId = id]
     IN req' =
          IF id \notin DOMAIN offers
          THEN [req EXCEPT ![r] = Rejected("complete", caller, 404, "offer")]
          ELSE IF completeRefusal(offers[id], caller).code # 0
          THEN [req EXCEPT ![r] =
                  [q EXCEPT !.pc = "done",
                            !.resp = completeRefusal(offers[id], caller).code,
                            !.err = completeRefusal(offers[id], caller).why]]
          ELSE [req EXCEPT ![r] =
                  [q EXCEPT !.pc = "updateOffer",
                            !.demandId = offers[id].demandId,
                            !.providerId = offers[id].providerId]]
  /\ UNCHANGED visVars
  /\ UNCHANGED moreVars
  /\ UNCHANGED <<balance, demandStatus, rate, offers, notifications,
                 offerSeq, rowLock, panelOps>>

\* prisma.offer.update({ providerCompleted: true, status: 'COMPLETED' })
CompleteOfferUpdate(r) ==
  /\ req[r].kind = "complete" /\ req[r].pc = "updateOffer"
  /\ IF req[r].offerId \in DOMAIN offers
     THEN /\ offers' = [offers EXCEPT
                          ![req[r].offerId].providerCompleted = TRUE,
                          ![req[r].offerId].status = "COMPLETED"]
          /\ req' = [req EXCEPT ![r].pc = "notify", ![r].committed = TRUE]
     ELSE /\ offers' = offers
          /\ req' = Fail(r, 500, "gone")
  /\ UNCHANGED visVars
  /\ UNCHANGED moreVars
  /\ UNCHANGED <<balance, demandStatus, rate, notifications, offerSeq,
                 rowLock, panelOps>>

\* prisma.notification.create for the demand owner and the response
CompleteOfferNotify(r) ==
  /\ req[r].kind = "complete" /\ req[r].pc = "notify"
  /\ notifications' = notifications \cup
       {[by |-> r, userId |-> demandUserId(req[r].demandId),
         type |-> "OFFER_COMPLETED", offerId |-> req[r].offerId]}
  /\ req' = [req EXCEPT ![r].pc = "done", ![r].resp = 200]
  /\ UNCHANGED visVars
  /\ UNCHANGED moreVars
  /\ UNCHANGED <<balance, demandStatus, rate, offers, offerSeq, rowLock,
                 panelOps>>

CompleteOffer ==
  \/ \E r \in Reqs, caller \in Users, id \in OfferIds :
        CompleteOfferFind(r, caller, id)
  \/ \E r \in Reqs : CompleteOfferUpdate(r)
  \/ \E r \in Reqs : CompleteOfferNotify(r)

\* --------------------------------------------- single-statement requests

\* the optional body fields of an offer edit: {} is an absent field
OfferEdits ==
  [price : {{}, {5000}}, status : {{}} \cup {{s} : s \in OfferStatuses}]

\* updateData applied by prisma.offer.update
applyOfferEdit(o, body) ==
  [o EXCEPT !.price = IF body.price = {} THEN @
                      ELSE CHOOSE x \in body.price : TRUE,
            !.status = IF body.status = {} THEN @
                       ELSE CHOOSE x \in body.status : TRUE]

\* PATCH /api/offers/:id: any authenticated user
UpdateOffer(caller, id, body) ==
  /\ panelOps < MaxPanelOps
  /\ id \in DOMAIN offers
  /\ offers' = [offers EXCEPT ![id] = applyOfferEdit(@, body)]
  /\ panelOps' = panelOps + 1
  /\ UNCHANGED visVars
  /\ UNCHANGED moreVars
  /\ UNCHANGED <<balance, demandStatus, rate, notifications, offerSeq,
                 rowLock, req>>

\* PATCH /api/admin/offers/:id: requireAdmin
AdminUpdateOffer(caller, id, body) ==
  /\ isAdmin(caller)
  /\ UpdateOffer(caller, id, body)

\* DELETE /api/offers/:id: any authenticated user
DeleteOffer(caller, id) ==
  /\ panelOps < MaxPanelOps
  /\ id \in DOMAIN offers
  /\ offers' = [i \in DOMAIN offers \ {id} |-> offers[i]]
  /\ panelOps' = panelOps + 1
  /\ UNCHANGED visVars
  /\ UNCHANGED moreVars
  /\ UNCHANGED <<balance, demandStatus, rate, notifications, offerSeq,
                 rowLock, req>>

\* DELETE /api/admin/offers/:id: requireAdmin
AdminDeleteOffer(caller, id) ==
  /\ isAdmin(caller)
  /\ DeleteOffer(caller, id)

\* POST /api/admin/offers: requireAdmin, demand and provider exist
AdminCreateOffer(caller, d, p, price, status) ==
  /\ isAdmin(caller)
  /\ panelOps < MaxPanelOps
  /\ offerSeq < MaxOffers
  /\ d \in Demands /\ p \in Users
  /\ offerRowAccepted(d, p)
  /\ offers' = insertOffer([demandId |-> d, providerId |-> p,
                            price |-> price, status |-> status,
                            providerCompleted |-> FALSE, by |-> 0])
  /\ offerSeq' = offerSeq + 1
  /\ panelOps' = panelOps + 1
  /\ UNCHANGED visVars
  /\ UNCHANGED moreVars
  /\ UNCHANGED <<balance, demandStatus, rate, notifications, rowLock, req>>

\* PUT /api/demands/:id: authorizeReceiver, owner only; updateData is the
\* request body, of which the model keeps the status
UpdateDemand(caller, d, status) ==
  /\ userType(caller) = "RECEIVER"
  /\ demandUserId(d) = caller
  /\ panelOps < MaxPanelOps
  /\ demandStatus' = [demandStatus EXCEPT ![d] = status]
  /\ panelOps' = panelOps + 1
  /\ UNCHANGED visVars
  /\ UNCHANGED moreVars
  /\ UNCHANGED <<balance, rate, offers, notifications, offerSeq, rowLock,
                 req>>

\* PATCH /api/admin/demands/:id: requireAdmin
AdminUpdateDemand(caller, d, status) ==
  /\ isAdmin(caller)
  /\ panelOps < MaxPanelOps
  /\ demandStatus' = [demandStatus EXCEPT ![d] = status]
  /\ panelOps' = panelOps + 1
  /\ UNCHANGED visVars
  /\ UNCHANGED moreVars
  /\ UNCHANGED <<balance, rate, offers, notifications, offerSeq, rowLock,
                 req>>

Panel ==
  \/ \E caller \in Users, id \in OfferIds, body \in OfferEdits :
        UpdateOffer(caller, id, body)
  \/ \E caller \in Users, id \in OfferIds, body \in OfferEdits :
        AdminUpdateOffer(caller, id, body)
  \/ \E caller \in Users, id \in OfferIds : DeleteOffer(caller, id)
  \/ \E caller \in Users, id \in OfferIds : AdminDeleteOffer(caller, id)
  \/ \E caller \in Users, d \in Demands, p \in Users,
        status \in OfferStatuses :
        AdminCreateOffer(caller, d, p, 5000, status)
  \/ \E caller \in Users, d \in Demands, status \in DemandStatuses :
        UpdateDemand(caller, d, status)
  \/ \E caller \in Users, d \in Demands, status \in DemandStatuses :
        AdminUpdateDemand(caller, d, status)

\* ------------------------------------------------- GET /api/demands

\* getAllChildCategoryIds: the category and, recursively, the categories
\* whose parentId it is
RECURSIVE getAllChildCategoryIds(_, _)
getDirectChildCategoryIds(f, categoryId) ==
  {categoryId} \cup {c \in DOMAIN f : f[c] = categoryId}
getAllChildCategoryIds(f, categoryId) ==
  LET children == {c \in DOMAIN f : f[c] = categoryId}
  IN {categoryId} \cup
       UNION {getAllChildCategoryIds(f, child) : child \in children}

\* allowedCategoryIds: the union over the user's category ids, de-duplicated
allowedCategoryIds(f, userCategoryIds) ==
  UNION {getAllChildCategoryIds(f, c) : c \in userCategoryIds}

\* prisma.category.findFirst({ OR: [{ id }, { name }] }): the ids found
categoryRecord(category) == category \cap DOMAIN parentId

\* where.isApproved = true is set for a PROVIDER only
approvedOnlyNever(caller) == FALSE
approvedOnly(caller) == userType(caller) = "PROVIDER"

\* currentUser?.userType === "PROVIDER" && currentUser.categories.length > 0
resolverAppliesToEveryProvider(caller) == userType(caller) = "PROVIDER"
resolverApplies(caller) ==
  userType(caller) = "PROVIDER" /\ userCategories[caller] # {}

\* the where clause GET / builds; anyCategory is an absent where.categoryId,
\* and an absent query parameter is the empty set
demandsWhere(caller, category, status) ==
  LET resolved == resolverApplies(caller)
      allowed == IF resolved
                 THEN allowedCategoryIds(parentId, userCategories[caller])
                 ELSE {}
  IN [allowed |-> allowed,
      anyCategory |-> ~resolved /\ categoryRecord(category) = {},
      categoryIds |->
        IF resolved
        THEN IF category # {} THEN categoryRecord(category) \cap allowed
             ELSE allowed
        ELSE categoryRecord(category),
      status |-> status,
      isApproved |-> approvedOnly(caller)]

\* prisma.demand.findMany({ where })
findManyDemands(where) ==
  {d \in Demands :
     /\ where.anyCategory \/ demandRow[d].categoryId \in where.categoryIds
     /\ where.status = {} \/ demandStatus[d] \in where.status
     /\ where.isApproved => demandRow[d].isApproved}

\* GET /api/demands with the default page and limit, which hold every
\* matching demand; the store does not change between the handler's reads
ListDemands(caller, category, status) ==
  /\ view.kind = "none"
  /\ LET where == demandsWhere(caller, category, status)
     IN view' = [NoView EXCEPT !.kind = "list", !.caller = caller,
                               !.category = category, !.status = status,
                               !.allowed = where.allowed,
                               !.demands = findManyDemands(where),
                               !.resp = 200]
  /\ UNCHANGED <<parentId, userCategories, demandRow, catReq>>
  /\ UNCHANGED offerVars
  /\ UNCHANGED moreVars

\* ---------------------------------------------- GET /api/demands/:id

\* userCategoryIds.includes(demand.categoryId)
includesCategory(userCategoryIds, categoryId) ==
  categoryId \in userCategoryIds

\* the answer of GET /:id: 404, 403 or 200
demandByIdStatus(caller, d) ==
  IF d \notin Demands THEN 404
  ELSE IF ~demandRow[d].isApproved THEN 403
  ELSE IF /\ userCategories[caller] # {}
          /\ ~includesCategory(userCategories[caller], demandRow[d].categoryId)
  THEN 403
  ELSE 200

GetDemand(caller, d) ==
  /\ view.kind = "none"
  /\ view' = [NoView EXCEPT !.kind = "get", !.caller = caller,
                            !.demandId = d,
                            !.resp = demandByIdStatus(caller, d),
                            !.demands = IF demandByIdStatus(caller, d) = 200
                                        THEN {d} ELSE {}]
  /\ UNCHANGED <<parentId, userCategories, demandRow, catReq>>
  /\ UNCHANGED offerVars
  /\ UNCHANGED moreVars

\* ------- PATCH /api/admin/categories/:id and PATCH /api/categories/:id

\* authenticate, and requireAdmin on the admin router only
routeAllows(route, caller) == route = "categories" \/ isAdmin(caller)

\* category handlers are started in slot order
CanStartCategory(r) ==
  /\ catReq[r].pc = "idle"
  /\ IF r = 1 THEN TRUE ELSE catReq[r - 1].pc # "idle"

CategoryAnswered(r, code) ==
  [catReq EXCEPT ![r] = [NoCatReq EXCEPT !.pc = "done", !.resp = code]]

\* the circular-reference loop on the row just read, whose parentId is pp:
\* stop at a root, throw when the next ancestor is the category itself,
\* otherwise read that ancestor next
afterParentRead(r, pp) ==
  IF pp = NullCategory THEN [catReq EXCEPT ![r].pc = "update"]
  ELSE IF pp = catReq[r].id
  THEN [catReq EXCEPT ![r].pc = "done", ![r].resp = 400]
  ELSE [catReq EXCEPT ![r].pc = "walk", ![r].currentParent = pp]

\* body('parentId') of the update routes: the admin router lets a null or
\* empty parentId through, the categories router accepts a UUID only
parentIdValid(route, parent) == route = "admin" \/ parent # NullCategory

\* prisma.category.findUnique of the category and the self-parent check
UpdateCategoryFind(r, route, caller, id, parent) ==
  /\ CanStartCategory(r)
  /\ catReq' =
       IF ~routeAllows(route, caller) THEN CategoryAnswered(r, 403)
       ELSE IF ~parentIdValid(route, parent) THEN CategoryAnswered(r, 400)
       ELSE IF id \notin DOMAIN parentId THEN CategoryAnswered(r, 404)
       ELSE IF parent = id THEN CategoryAnswered(r, 400)
       ELSE [catReq EXCEPT ![r] =
               [NoCatReq EXCEPT !.kind = "update", !.route = route,
                                !.id = id, !.parentId = parent,
                                !.pc = IF parent = NullCategory THEN "update"
                                       ELSE "findParent"]]
  /\ UNCHANGED <<parentId, userCategories, demandRow, view>>
  /\ UNCHANGED offerVars
  /\ UNCHANGED moreVars

\* prisma.category.findUnique of the new parent
UpdateCategoryFindParent(r) ==
  /\ catReq[r].kind = "update" /\ catReq[r].pc = "findParent"
  /\ catReq' =
       IF catReq[r].parentId \notin DOMAIN parentId
       THEN [catReq EXCEPT ![r].pc = "done", ![r].resp = 404]
       ELSE afterParentRead(r, parentId[catReq[r].parentId])
  /\ UNCHANGED <<parentId, userCategories, demandRow, view>>
  /\ UNCHANGED offerVars
  /\ UNCHANGED moreVars

\* prisma.category.findUnique of the next ancestor inside the loop
UpdateCategoryWalk(r) ==
  /\ catReq[r].kind = "update" /\ catReq[r].pc = "walk"
  /\ catReq' =
       IF catReq[r].currentParent \notin DOMAIN parentId
       THEN [catReq EXCEPT ![r].pc = "update"]
       ELSE afterParentRead(r, parentId[catReq[r].currentParent])
  /\ UNCHANGED <<parentId, userCategories, demandRow, view>>
  /\ UNCHANGED offerVars
  /\ UNCHANGED moreVars

\* prisma.category.update({ data: { parentId: parentId || null } })
UpdateCategoryUpdate(r) ==
  /\ catReq[r].kind = "update" /\ catReq[r].pc = "update"
  /\ parentId' = [parentId EXCEPT ![catReq[r].id] = catReq[r].parentId]
  /\ catReq' = [catReq EXCEPT ![r].pc = "done", ![r].resp = 200]
  /\ UNCHANGED <<userCategories, demandRow, view>>
  /\ UNCHANGED offerVars
  /\ UNCHANGED moreVars

UpdateCategory ==
  \/ \E r \in Reqs, route \in {"admin", "categories"}, caller \in Users,
        id \in Categories, parent \in Categories \cup {NullCategory} :
        UpdateCategoryFind(r, route, caller, id, parent)
  \/ \E r \in Reqs : UpdateCategoryFindParent(r)
  \/ \E r \in Reqs : UpdateCategoryWalk(r)
  \/ \E r \in Reqs : UpdateCategoryUpdate(r)

\* --------- POST /api/admin/categories and POST /api/categories

\* prisma.category.findUnique of the parent named in the body; NullCategory
\* is a body without parentId
CreateCategoryFindParent(r, route, caller, parent) ==
  /\ CanStartCategory(r)
  /\ catReq' =
       IF ~routeAllows(route, caller) THEN CategoryAnswered(r, 403)
       ELSE IF parent # NullCategory /\ parent \notin DOMAIN parentId
       THEN CategoryAnswered(r, 404)
       ELSE [catReq EXCEPT ![r] =
               [NoCatReq EXCEPT !.kind = "create", !.route = route,
                                !.parentId = parent, !.pc = "create"]]
  /\ UNCHANGED <<parentId, userCategories, demandRow, view>>
  /\ UNCHANGED offerVars
  /\ UNCHANGED moreVars

\* prisma.category.create: the new row gets an id no row has
CreateCategoryCreate(r) ==
  /\ catReq[r].kind = "create" /\ catReq[r].pc = "create"
  /\ \E id \in Categories \ DOMAIN parentId :
       /\ parentId' = [c \in DOMAIN parentId \cup {id} |->
                         IF c = id THEN catReq[r].parentId ELSE parentId[c]]
       /\ catReq' = [catReq EXCEPT ![r].pc = "done", ![r].resp = 201,
                                   ![r].id = id]
  /\ UNCHANGED <<userCategories, demandRow, view>>
  /\ UNCHANGED offerVars
  /\ UNCHANGED moreVars

CreateCategory ==
  \/ \E r \in Reqs, route \in {"admin", "categories"}, caller \in Users,
        parent \in Categories \cup {NullCategory} :
        CreateCategoryFindParent(r, route, caller, parent)
  \/ \E r \in Reqs : CreateCategoryCreate(r)

\* -------------------------------------------------------- specifications

\* every handler, no storage failures
Next == CreateOffer \/ UpdateOfferStatus \/ CompleteOffer \/ Panel

Spec == Init /\ [][Next]_vars

\* concurrent offer creations
NextCreate == CreateOffer

SpecCreate == Init /\ [][NextCreate]_vars

\* concurrent offer creations whose storage writes may fail
NextFault == CreateOffer \/ CreateOfferFault

SpecFault == Init /\ [][NextFault]_vars

\* a store that already holds two PENDING offers on d1, by p1 and by p2,
\* as two POST /api/admin/offers leave it
InitStatus ==
  /\ balance = [u \in Providers |-> InitialBalance(u)]
  /\ demandStatus = [d \in Demands |-> "ACTIVE"]
  /\ rate \in CommissionRates
  /\ offers = [id \in 1..2 |->
                 [demandId |-> "d1",
                  providerId |-> IF id = 1 THEN "p1" ELSE "p2",
                  price |-> 5000, status |-> "PENDING",
                  providerCompleted |-> FALSE, by |-> 0]]
  /\ notifications = {}
  /\ offerSeq = 2
  /\ rowLock = [u \in Providers |-> 0]
  /\ panelOps = 0
  /\ req = [r \in Reqs |-> NoReq]
  /\ InitVisibility

\* concurrent accept, reject and complete requests
NextStatus ==
  \/ UpdateOfferStatus
  \/ CompleteOffer
  \/ \E caller \in Users, id \in OfferIds : DeleteOffer(caller, id)

SpecStatus == InitStatus /\ [][NextStatus]_vars

\* a store in which the owner has accepted p1's offer on d1 (d1 is CLOSED)
\* and p2's offer on d2 is PENDING
InitComplete ==
  /\ balance = [u \in Providers |-> InitialBalance(u)]
  /\ demandStatus = [d \in Demands |-> IF d = "d1" THEN "CLOSED" ELSE "ACTIVE"]
  /\ rate \in CommissionRates
  /\ offers = [id \in 1..2 |->
                 [demandId |-> IF id = 1 THEN "d1" ELSE "d2",
                  providerId |-> IF id = 1 THEN "p1" ELSE "p2",
                  price |-> 5000,
                  status |-> IF id = 1 THEN "ACCEPTED" ELSE "PENDING",
                  providerCompleted |-> FALSE, by |-> 0]]
  /\ notifications = {}
  /\ offerSeq = 2
  /\ rowLock = [u \in Providers |-> 0]
  /\ panelOps = 0
  /\ req = [r \in Reqs |-> NoReq]
  /\ InitVisibility

\* concurrent complete requests, and accept or reject requests beside them
NextComplete == CompleteOffer \/ UpdateOfferStatus

SpecComplete == InitComplete /\ [][NextComplete]_vars

\* the UserCategory rows PUT /api/users/me leaves: any set of categories
\* for provider p1, none or B for receiver r1
Subscriptions ==
  {[u \in Users |-> IF u = "p1" THEN S ELSE IF u = "r1" THEN T ELSE {}] :
     S \in SUBSET Categories, T \in {{}, {"B"}}}

\* the query parameters of GET /api/demands
CategoryQueries == {{}} \cup {{c} : c \in Categories \cup {UnknownCategory}}
StatusQueries == {{}, {"CLOSED"}}

\* any category forest, any subscriptions, d1 ACTIVE in category D and d2
\* CLOSED in category A, each approved or not
InitVisibilityStore ==
  /\ balance = [u \in Providers |-> InitialBalance(u)]
  /\ demandStatus = [d \in Demands |-> IF d = "d1" THEN "ACTIVE" ELSE "CLOSED"]
  /\ rate = [d \in Demands |-> {10}]
  /\ offers = <<>>
  /\ notifications = {}
  /\ offerSeq = 0
  /\ rowLock = [u \in Providers |-> 0]
  /\ panelOps = 0
  /\ req = [r \in Reqs |-> NoReq]
  /\ parentId \in CategoryTrees
  /\ userCategories \in Subscriptions
  /\ demandRow \in [Demands -> [categoryId : Categories, isApproved : BOOLEAN]]
  /\ \A d \in Demands : demandRow[d].categoryId = demandCategoryId(d)
  /\ view = NoView
  /\ catReq = [r \in Reqs |-> NoCatReq]
  /\ InitMore

\* one demand read on any store
NextVisibility ==
  \/ \E caller \in Users, category \in CategoryQueries,
        status \in StatusQueries : ListDemands(caller, category, status)
  \/ \E caller \in Users, d \in Demands \cup {MissingDemand} :
        GetDemand(caller, d)

SpecVisibility == InitVisibilityStore /\ [][NextVisibility]_vars

\* the categories A, B, C all roots, or C under B under A; D is not created
InitCategory ==
  /\ balance = [u \in Providers |-> InitialBalance(u)]
  /\ demandStatus = [d \in Demands |-> "ACTIVE"]
  /\ rate = [d \in Demands |-> {10}]
  /\ offers = <<>>
  /\ notifications = {}
  /\ offerSeq = 0
  /\ rowLock = [u \in Providers |-> 0]
  /\ panelOps = 0
  /\ req = [r \in Reqs |-> NoReq]
  /\ parentId \in
       { [c \in {"A", "B", "C"} |-> NullCategory],
         [c \in {"A", "B", "C"} |->
            IF c = "A" THEN NullCategory ELSE IF c = "B" THEN "A" ELSE "B"] }
  /\ userCategories = [u \in Users |-> {}]
  /\ demandRow = [d \in Demands |->
                    [categoryId |-> "A", isApproved |-> TRUE]]
  /\ view = NoView
  /\ catReq = [r \in Reqs |-> NoCatReq]
  /\ InitMore

\* concurrent category creations and updates
NextCategory == UpdateCategory \/ CreateCategory

SpecCategory == InitCategory /\ [][NextCategory]_vars

\* a store without offers in which no offer, demand read or category
\* request was made: every category has commissionRate 10, the categories
\* are the example tree, nobody has a subscription
InitIdle ==
  /\ balance = [u \in Providers |-> InitialBalance(u)]
  /\ demandStatus = [d \in Demands |-> "ACTIVE"]
  /\ rate = [d \in Demands |-> {10}]
  /\ offers = <<>>
  /\ notifications = {}
  /\ offerSeq = 0
  /\ rowLock = [u \in Providers |-> 0]
  /\ panelOps = 0
  /\ req = [r \in Reqs |-> NoReq]
  /\ parentId = ExampleTree
  /\ userCategories = [u \in Users |-> {}]
  /\ demandRow = [d \in Demands |->
                    [categoryId |-> demandCategoryId(d), isApproved |-> TRUE]]
  /\ view = NoView
  /\ catReq = [r \in Reqs |-> NoCatReq]

\* --------------------------------------------------- /api/reviews

\* review handlers are started in slot order
CanStartReview(r) ==
  /\ revReq[r].pc = "idle"
  /\ IF r = 1 THEN TRUE ELSE revReq[r - 1].pc # "idle"

ReviewAnswered(r, code) ==
  [revReq EXCEPT ![r].pc = "done", ![r].resp = code]

\* prisma.review.findMany({ where: { reviewedUserId } })
reviewsOf(u) == {id \in DOMAIN reviews : reviews[id].reviewedUserId = u}

\* reviews.reduce((sum, r) => sum + r.rating, 0)
RECURSIVE sumRatings(_)
sumRatings(ids) ==
  IF ids = {} THEN 0
  ELSE LET id == CHOOSE x \in ids : TRUE
       IN reviews[id].rating + sumRatings(ids \ {id})

\* avgRating of POST /api/reviews: sum / length, which is 0 / 0 if the
\* list is empty
avgRatingOfCreate(sum, length) == [sum |-> sum, length |-> length]

\* avgRating of DELETE /api/reviews/:id: sum / length, 0 for an empty list
avgRatingOfDelete(sum, length) ==
  IF length > 0 THEN [sum |-> sum, length |-> length]
  ELSE [sum |-> 0, length |-> 1]

\* prisma.review.findFirst({ where: { reviewerId, reviewedUserId } })
existingReview(reviewerId, reviewedUserId) ==
  \E id \in DOMAIN reviews :
    /\ reviews[id].reviewerId = reviewerId
    /\ reviews[id].reviewedUserId = reviewedUserId

\* what the review handlers leave alone
notReviewVars == <<offerVars, visVars, userExists, demandVars, meReq, otpVars>>

\* POST /api/reviews: the validators, the self-review check and
\* prisma.user.findUnique of the reviewed user
CreateReviewFindUser(r, caller, reviewedUserId, rating) ==
  /\ CanStartReview(r)
  /\ LET q == [NoRevReq EXCEPT !.kind = "create", !.caller = caller,
                               !.reviewedUserId = reviewedUserId,
                               !.rating = rating]
     IN revReq' =
          IF rating \notin 1..5 \/ reviewedUserId = caller
          THEN [revReq EXCEPT ![r] = [q EXCEPT !.pc = "done", !.resp = 400]]
          ELSE IF reviewedUserId \notin Users \/ ~userExists[reviewedUserId]
          THEN [revReq EXCEPT ![r] = [q EXCEPT !.pc = "done", !.resp = 404]]
          ELSE [revReq EXCEPT ![r] = [q EXCEPT !.pc = "findExisting"]]
  /\ UNCHANGED <<reviews, reviewSeq, userRating>>
  /\ UNCHANGED notReviewVars

\* prisma.review.findFirst and the duplicate check
CreateReviewFindExisting(r) ==
  /\ revReq[r].kind = "create" /\ revReq[r].pc = "findExisting"
  /\ revReq' = IF existingReview(revReq[r].caller, revReq[r].reviewedUserId)
               THEN ReviewAnswered(r, 400)
               ELSE [revReq EXCEPT ![r].pc = "create"]
  /\ UNCHANGED <<reviews, reviewSeq, userRating>>
  /\ UNCHANGED notReviewVars

\* prisma.review.create
CreateReviewCreate(r) ==
  /\ revReq[r].kind = "create" /\ revReq[r].pc = "create"
  /\ reviews' =
       [id \in DOMAIN reviews \cup {reviewSeq + 1} |->
          IF id = reviewSeq + 1
          THEN [reviewerId |-> revReq[r].caller,
                reviewedUserId |-> revReq[r].reviewedUserId,
                rating |-> revReq[r].rating]
          ELSE reviews[id]]
  /\ reviewSeq' = reviewSeq + 1
  /\ revReq' = [revReq EXCEPT ![r].pc = "findMany",
                              ![r].reviewId = reviewSeq + 1]
  /\ UNCHANGED userRating
  /\ UNCHANGED notReviewVars

\* prisma.review.findMany of the reviews about the reviewed user, of
\* either handler
ReviewFindMany(r) ==
  /\ revReq[r].kind \in {"create", "delete"} /\ revReq[r].pc = "findMany"
  /\ LET ids == reviewsOf(revReq[r].reviewedUserId)
     IN revReq' = [revReq EXCEPT ![r].pc = "update",
                                 ![r].sum = sumRatings(ids),
                                 ![r].length = Cardinality(ids)]
  /\ UNCHANGED <<reviews, reviewSeq, userRating>>
  /\ UNCHANGED notReviewVars

\* prisma.user.update({ rating: avgRating, ratingCount: reviews.length })
\* and the 201 response
CreateReviewUpdate(r) ==
  /\ revReq[r].kind = "create" /\ revReq[r].pc = "update"
  /\ LET avg == avgRatingOfCreate(revReq[r].sum, revReq[r].length)
     IN userRating' =
          [userRating EXCEPT ![revReq[r].reviewedUserId] =
             [sum |-> avg.sum, length |-> avg.length,
              ratingCount |-> revReq[r].length]]
  /\ revReq' = ReviewAnswered(r, 201)
  /\ UNCHANGED <<reviews, reviewSeq>>
  /\ UNCHANGED notReviewVars

CreateReview ==
  \/ \E r \in Reqs, caller \in {"r1", "p2", "p1"}, rating \in {1, 5} :
        CreateReviewFindUser(r, caller, "p1", rating)
  \/ \E r \in Reqs : CreateReviewFindExisting(r)
  \/ \E r \in Reqs : CreateReviewCreate(r)
  \/ \E r \in Reqs : ReviewFindMany(r)
  \/ \E r \in Reqs : CreateReviewUpdate(r)

\* DELETE /api/reviews/:id, any authenticated user: prisma.review.findUnique
DeleteReviewFind(r, caller, id) ==
  /\ CanStartReview(r)
  /\ LET q == [NoRevReq EXCEPT !.kind = "delete", !.caller = caller,
                               !.reviewId = id]
     IN revReq' =
          IF id \notin DOMAIN reviews
          THEN [revReq EXCEPT ![r] = [q EXCEPT !.pc = "done", !.resp = 404]]
          ELSE [revReq EXCEPT ![r] =
                  [q EXCEPT !.pc = "delete",
                            !.reviewedUserId = reviews[id].reviewedUserId]]
  /\ UNCHANGED <<reviews, reviewSeq, userRating>>
  /\ UNCHANGED notReviewVars

\* prisma.review.delete, which throws if the row is gone
DeleteReviewDelete(r) ==
  /\ revReq[r].kind = "delete" /\ revReq[r].pc = "delete"
  /\ IF revReq[r].reviewId \in DOMAIN reviews
     THEN /\ reviews' = [id \in DOMAIN reviews \ {revReq[r].reviewId} |->
                           reviews[id]]
          /\ revReq' = [revReq EXCEPT ![r].pc = "findMany"]
     ELSE /\ reviews' = reviews
          /\ revReq' = ReviewAnswered(r, 500)
  /\ UNCHANGED <<reviewSeq, userRating>>
  /\ UNCHANGED notReviewVars

\* prisma.user.update({ rating: avgRating, ratingCount: reviews.length })
\* and the 200 response
DeleteReviewUpdate(r) ==
  /\ revReq[r].kind = "delete" /\ revReq[r].pc = "update"
  /\ LET avg == avgRatingOfDelete(revReq[r].sum, revReq[r].length)
     IN userRating' =
          [userRating EXCEPT ![revReq[r].reviewedUserId] =
             [sum |-> avg.sum, length |-> avg.length,
              ratingCount |-> revReq[r].length]]
  /\ revReq' = ReviewAnswered(r, 200)
  /\ UNCHANGED <<reviews, reviewSeq>>
  /\ UNCHANGED notReviewVars

DeleteReview ==
  \/ \E r \in Reqs, id \in 1..(MaxReqs + 1) : DeleteReviewFind(r, "r1", id)
  \/ \E r \in Reqs : DeleteReviewDelete(r)
  \/ \E r \in Reqs : DeleteReviewUpdate(r)

\* concurrent review creations and deletions about provider p1; r1 has
\* reviewed p1 with rating 5 already or not
InitReview ==
  /\ InitIdle /\ InitUsers /\ InitDemands /\ InitMe /\ InitOtp
  /\ \/ /\ reviews = <<>>
        /\ reviewSeq = 0
        /\ userRating = [u \in Users |-> NoRating]
     \/ /\ reviews = <<[reviewerId |-> "r1", reviewedUserId |-> "p1",
                        rating |-> 5]>>
        /\ reviewSeq = 1
        /\ userRating = [u \in Users |->
                           IF u = "p1"
                           THEN [sum |-> 5, length |-> 1, ratingCount |-> 1]
                           ELSE NoRating]
  /\ revReq = [r \in Reqs |-> NoRevReq]

NextReview == CreateReview \/ DeleteReview

SpecReview == InitReview /\ [][NextReview]_vars


\* --------------------------------------------- posted demands

\* the first and the last 7-digit demand number
FirstDemandNumber == 1000000
LastDemandNumber == 9999999

\* the ids of the Demand rows a request may name
DemandIds == 1..(MaxReqs + 2)

\* the Demand rows that have not been deleted
liveDemands == {id \in DOMAIN demandStore : ~demandStore[id].deleted}

\* tx.demand.findFirst({ orderBy: { demandNumber: "desc" } }): the highest
\* demandNumber of the table, none if the table is empty
lastDemandNumber ==
  {n \in {demandStore[id].demandNumber : id \in liveDemands} :
     \A id \in liveDemands : demandStore[id].demandNumber <= n}

\* lastDemand?.demandNumber ? lastDemand.demandNumber + 1 : 1000000
nextDemandNumber(last) ==
  IF last = {} THEN FirstDemandNumber
  ELSE (CHOOSE n \in last : TRUE) + 1

\* updateData = { ...req.body } of PUT /api/demands/:id, of which the model
\* keeps isApproved (absent, true or false)
DemandBodies == [isApproved : {{}, {TRUE}, {FALSE}}]

applyDemandBody(row, body) ==
  [row EXCEPT !.isApproved = IF body.isApproved = {} THEN @
                             ELSE CHOOSE x \in body.isApproved : TRUE]

\* what the handlers of posted demands leave alone
notDemandVars ==
  <<balance, demandStatus, rate, offers, offerSeq, rowLock, panelOps, req,
    visVars, userExists, reviewVars, meReq, otpVars>>

\* demand handlers are started in slot order
CanStartDemand(r) ==
  /\ dmReq[r].pc = "idle"
  /\ IF r = 1 THEN TRUE ELSE dmReq[r - 1].pc # "idle"

\* POST /api/demands: authorizeReceiver, then, inside prisma.$transaction,
\* tx.demand.findFirst, nextDemandNumber and the limit check
CreateDemandFindLast(r, caller) ==
  /\ CanStartDemand(r)
  /\ LET q == [NoDmReq EXCEPT !.kind = "create", !.caller = caller]
         n == nextDemandNumber(lastDemandNumber)
     IN dmReq' =
          IF userType(caller) # "RECEIVER"
          THEN [dmReq EXCEPT ![r] = [q EXCEPT !.pc = "done", !.resp = 403]]
          ELSE IF n > LastDemandNumber
          THEN [dmReq EXCEPT ![r] = [q EXCEPT !.pc = "done", !.resp = 500,
                                            !.nextDemandNumber = n]]
          ELSE [dmReq EXCEPT ![r] = [q EXCEPT !.pc = "create",
                                            !.nextDemandNumber = n]]
  /\ UNCHANGED <<demandStore, demandSeq, notifications>>
  /\ UNCHANGED notDemandVars

\* tx.demand.create({ demandNumber: nextDemandNumber, isApproved: false }),
\* the commit and the 201 response
CreateDemandCreate(r) ==
  /\ dmReq[r].kind = "create" /\ dmReq[r].pc = "create"
  /\ demandStore' =
       [id \in DOMAIN demandStore \cup {demandSeq + 1} |->
          IF id = demandSeq + 1
          THEN [demandNumber |-> dmReq[r].nextDemandNumber,
                userId |-> dmReq[r].caller, isApproved |-> FALSE,
                deleted |-> FALSE]
          ELSE demandStore[id]]
  /\ demandSeq' = demandSeq + 1
  /\ dmReq' = [dmReq EXCEPT ![r].pc = "done", ![r].resp = 201]
  /\ UNCHANGED notifications
  /\ UNCHANGED notDemandVars

\* tx.demand.create refused by the table because a row has the number
\* already: whether Demand.demandNumber is unique is set by the database
\* schema, so both outcomes of such an insertion are kept
CreateDemandCreateRefused(r) ==
  /\ dmReq[r].kind = "create" /\ dmReq[r].pc = "create"
  /\ \E id \in liveDemands :
       demandStore[id].demandNumber = dmReq[r].nextDemandNumber
  /\ dmReq' = [dmReq EXCEPT ![r].pc = "done", ![r].resp = 500]
  /\ UNCHANGED <<demandStore, demandSeq, notifications>>
  /\ UNCHANGED notDemandVars

CreateDemand ==
  \/ \E r \in Reqs, caller \in Users : CreateDemandFindLast(r, caller)
  \/ \E r \in Reqs : CreateDemandCreate(r)
  \/ \E r \in Reqs : CreateDemandCreateRefused(r)

\* PUT /api/demands/:id: authorizeReceiver, the demand exists, the caller
\* owns it, prisma.demand.update({ data: updateData })
PutDemand(caller, id, body) ==
  /\ userType(caller) = "RECEIVER"
  /\ id \in liveDemands
  /\ demandStore[id].userId = caller
  /\ demandStore' = [demandStore EXCEPT ![id] = applyDemandBody(@, body)]
  /\ UNCHANGED <<demandSeq, dmReq, notifications>>
  /\ UNCHANGED notDemandVars

\* PATCH /api/admin/demands/:id/approval: requireAdmin, the demand exists,
\* prisma.demand.update({ data: { isApproved } }) and the notification of
\* the owner
AdminDemandApproval(caller, id, isApproved) ==
  /\ isAdmin(caller)
  /\ id \in liveDemands
  /\ demandStore' = [demandStore EXCEPT ![id].isApproved = isApproved]
  /\ notifications' = notifications \cup
       {[by |-> 0, userId |-> demandStore[id].userId,
         type |-> IF isApproved THEN "DEMAND_APPROVED" ELSE "DEMAND_REJECTED",
         offerId |-> id]}
  /\ UNCHANGED <<demandSeq, dmReq>>
  /\ UNCHANGED notDemandVars

\* DELETE /api/demands/:id: authorizeReceiver, the demand exists, the
\* caller owns it, prisma.demand.delete
DeleteDemand(caller, id) ==
  /\ userType(caller) = "RECEIVER"
  /\ id \in liveDemands
  /\ demandStore[id].userId = caller
  /\ demandStore' = [demandStore EXCEPT ![id].deleted = TRUE]
  /\ UNCHANGED <<demandSeq, dmReq, notifications>>
  /\ UNCHANGED notDemandVars

\* the Demand rows POST /api/demands has made so far: none, the first two,
\* or one that has the number before the last
InitDemand ==
  /\ InitIdle /\ InitUsers /\ InitReviews /\ InitMe /\ InitOtp
  /\ \E ns \in {<<>>, <<FirstDemandNumber, FirstDemandNumber + 1>>,
                <<LastDemandNumber - 1>>} :
       /\ demandStore = [id \in DOMAIN ns |->
                           [demandNumber |-> ns[id], userId |-> "r1",
                            isApproved |-> FALSE, deleted |-> FALSE]]
       /\ demandSeq = Len(ns)
  /\ dmReq = [r \in Reqs |-> NoDmReq]

\* concurrent demand creations beside deletions, and updates and approvals
\* of the first demand
NextDemand ==
  \/ CreateDemand
  \/ \E caller \in Users, body \in DemandBodies : PutDemand(caller, 1, body)
  \/ \E caller \in Users, isApproved \in BOOLEAN :
        AdminDemandApproval(caller, 1, isApproved)
  \/ \E caller \in Users, id \in DemandIds : DeleteDemand(caller, id)

SpecDemand == InitDemand /\ [][NextDemand]_vars


\* --------------------------------------------- PUT /api/users/me

\* the categories arrays of the request body
MeCategories == {{}, {"A"}, {"C"}, {"C", "D"}, {UnknownCategory}}

\* what the profile update leaves alone
notMeVars ==
  <<offerVars, parentId, demandRow, view, catReq, userExists, reviewVars,
    demandVars, otpVars>>

\* PUT /api/users/me with a categories array:
\* prisma.userCategory.deleteMany({ where: { userId } })
UpdateMeDeleteMany(caller, categories) ==
  /\ meReq.pc = "idle"
  /\ userCategories' = [userCategories EXCEPT ![caller] = {}]
  /\ meReq' = [NoMeReq EXCEPT
                 !.caller = caller, !.categories = categories,
                 !.oldCategories = userCategories[caller],
                 !.pc = IF categories = {} THEN "update" ELSE "findMany"]
  /\ UNCHANGED notMeVars

\* prisma.category.findMany({ id: { in: validCategories } })
UpdateMeFindMany ==
  /\ meReq.pc = "findMany"
  /\ LET categoryRecords == meReq.categories \cap DOMAIN parentId
     IN meReq' = [meReq EXCEPT
                    !.categoryRecords = categoryRecords,
                    !.pc = IF categoryRecords = {} THEN "update"
                           ELSE "createMany"]
  /\ UNCHANGED userCategories
  /\ UNCHANGED notMeVars

\* prisma.userCategory.createMany({ data, skipDuplicates: true })
UpdateMeCreateMany ==
  /\ meReq.pc = "createMany"
  /\ userCategories' =
       [userCategories EXCEPT ![meReq.caller] = @ \cup meReq.categoryRecords]
  /\ meReq' = [meReq EXCEPT !.pc = "update"]
  /\ UNCHANGED notMeVars

\* prisma.user.update of the profile columns, and the response
UpdateMeUpdate ==
  /\ meReq.pc = "update"
  /\ meReq' = [meReq EXCEPT !.pc = "done", !.resp = 200]
  /\ UNCHANGED userCategories
  /\ UNCHANGED notMeVars

UpdateMe ==
  \/ \E caller \in Providers, categories \in MeCategories :
        UpdateMeDeleteMany(caller, categories)
  \/ UpdateMeFindMany
  \/ UpdateMeCreateMany
  \/ UpdateMeUpdate

\* the example tree; p1 is subscribed to B or to D, p2 to nothing; d1 is in
\* category D and d2 in category A, both approved
InitSubscription ==
  /\ balance = [u \in Providers |-> InitialBalance(u)]
  /\ demandStatus = [d \in Demands |-> "ACTIVE"]
  /\ rate = [d \in Demands |-> {10}]
  /\ offers = <<>>
  /\ notifications = {}
  /\ offerSeq = 0
  /\ rowLock = [u \in Providers |-> 0]
  /\ panelOps = 0
  /\ req = [r \in Reqs |-> NoReq]
  /\ parentId = ExampleTree
  /\ \E S \in {{"B"}, {"D"}} :
       userCategories = [u \in Users |-> IF u = "p1" THEN S ELSE {}]
  /\ demandRow = [d \in Demands |->
                    [categoryId |-> demandCategoryId(d), isApproved |-> TRUE]]
  /\ view = NoView
  /\ catReq = [r \in Reqs |-> NoCatReq]
  /\ InitMore

\* one profile update and one listing of the demands beside it
NextSubscription ==
  \/ UpdateMe
  \/ \E caller \in Providers, category \in {{}, {"A"}} :
        ListDemands(caller, category, {})

SpecSubscription == InitSubscription /\ [][NextSubscription]_vars


\* --------------------------------------------- sms.service: OTP

\* phone numbers as the callers write them, digit by digit: four spellings
\* of one number and another number
Phones ==
  { <<"+", "9", "0", "5", "3", "1">>, <<"9", "0", "5", "3", "1">>,
    <<"0", "5", "3", "1">>, <<"5", "3", "1">>, <<"5", "3", "2">> }

\* the codes a caller sends to verifyOTP
Otps == {"123456", "000000"}

\* 5 * 60 * 1000 ms, and the last minute of the clock
OtpLifetime == 5
MaxNow == 7

\* s.replace(/^prefix/, '')
stripPrefix(s, prefix) ==
  IF Len(s) >= Len(prefix) /\ SubSeq(s, 1, Len(prefix)) = prefix
  THEN SubSeq(s, Len(prefix) + 1, Len(s))
  ELSE s

\* phoneNumber.replace(/^\+?90/, '').replace(/^0/, '')
cleanPhone(phoneNumber) ==
  LET a == stripPrefix(phoneNumber, <<"+", "9", "0">>)
      b == IF a # phoneNumber THEN a ELSE stripPrefix(phoneNumber, <<"9", "0">>)
  IN stripPrefix(b, <<"0">>)

\* generateOTP: the statement after the first return is never reached
generateOTP == "123456"

\* Date.now() > expiresAt
otpNeverExpired(t, expiresAt) == FALSE
otpExpired(t, expiresAt) == t > expiresAt

\* what the OTP service leaves alone
notOtpVars ==
  <<offerVars, visVars, userExists, reviewVars, demandVars, meReq>>

\* sendOTP up to otpStore.set, which runs before the first await; otpLog
\* keeps the time of the most recent sendOTP of every number and the
\* numbers whose most recent code was accepted
SendOTP(phoneNumber) ==
  LET phone == cleanPhone(phoneNumber)
      entry == [code |-> generateOTP, expiresAt |-> now + OtpLifetime]
  IN /\ otpStore' = [p \in DOMAIN otpStore \cup {phone} |->
                       IF p = phone THEN entry ELSE otpStore[p]]
     /\ otpLog' = [op |-> "send", phone |-> phoneNumber, otp |-> generateOTP,
                   result |-> TRUE,
                   sentAt |-> [p \in DOMAIN otpLog.sentAt \cup {phone} |->
                                 IF p = phone THEN now ELSE otpLog.sentAt[p]],
                   accepted |-> otpLog.accepted \ {phone}]
     /\ UNCHANGED now
     /\ UNCHANGED notOtpVars

\* verifyOTP: result is the value returned; the entry is deleted if it has
\* expired or if the code matches
VerifyOTP(phoneNumber, otp) ==
  LET phone == cleanPhone(phoneNumber)
      result == /\ phone \in DOMAIN otpStore
                /\ ~otpExpired(now, otpStore[phone].expiresAt)
                /\ otpStore[phone].code = otp
      delete == /\ phone \in DOMAIN otpStore
                /\ \/ otpExpired(now, otpStore[phone].expiresAt)
                   \/ otpStore[phone].code = otp
  IN /\ otpStore' = IF delete
                    THEN [p \in DOMAIN otpStore \ {phone} |-> otpStore[p]]
                    ELSE otpStore
     /\ otpLog' = [otpLog EXCEPT
                     !.op = "verify", !.phone = phoneNumber, !.otp = otp,
                     !.result = result,
                     !.accepted = IF result THEN @ \cup {phone} ELSE @]
     /\ UNCHANGED now
     /\ UNCHANGED notOtpVars

\* the setInterval callback: every expired entry is deleted
SweepOTP ==
  /\ otpStore' = [p \in {q \in DOMAIN otpStore :
                           ~otpExpired(now, otpStore[q].expiresAt)} |->
                    otpStore[p]]
  /\ UNCHANGED <<now, otpLog>>
  /\ UNCHANGED notOtpVars

\* a minute passes
Tick ==
  /\ now < MaxNow
  /\ now' = now + 1
  /\ UNCHANGED <<otpStore, otpLog>>
  /\ UNCHANGED notOtpVars

\* sendOTP and verifyOTP calls, sweeps and the clock in any order
NextOtp ==
  \/ \E phoneNumber \in Phones : SendOTP(phoneNumber)
  \/ \E phoneNumber \in Phones, otp \in Otps : VerifyOTP(phoneNumber, otp)
  \/ SweepOTP
  \/ Tick

SpecOtp == Init /\ [][NextOtp]_vars


\* --------------------------------------------- /api/admin/users/:id

\* the request bodies of PATCH /api/admin/users/:id, of which the model
\* keeps a balance key
UserEdits == [balance : {{}, {500000}}]

\* User.balance after prisma.user.update({ data: updateData }): updateData
\* is built column by column and has no balance
userBalanceFromBody(bal, body) ==
  IF body.balance = {} THEN bal ELSE CHOOSE x \in body.balance : TRUE
userBalanceAfterEdit(bal, body) == bal

\* PATCH /api/admin/users/:id: requireAdmin, the user exists,
\* prisma.user.update
AdminUpdateUser(caller, id, body) ==
  /\ isAdmin(caller)
  /\ panelOps < MaxPanelOps
  /\ userExists[id]
  /\ rowLock[id] = 0
  /\ balance' = [balance EXCEPT ![id] = userBalanceAfterEdit(@, body)]
  /\ panelOps' = panelOps + 1
  /\ UNCHANGED visVars
  /\ UNCHANGED moreVars
  /\ UNCHANGED <<demandStatus, rate, offers, notifications, offerSeq,
                 rowLock, req>>

\* DELETE /api/admin/users/:id: requireAdmin, the user exists,
\* prisma.user.delete, for a provider no Offer row refers to and whose row
\* no transaction holds (what the table does with referring rows is set by
\* the database schema)
AdminDeleteUser(caller, id) ==
  /\ isAdmin(caller)
  /\ userExists[id]
  /\ rowLock[id] = 0
  /\ \A o \in DOMAIN offers : offers[o].providerId # id
  /\ userExists' = [userExists EXCEPT ![id] = FALSE]
  /\ UNCHANGED <<offerVars, visVars, reviewVars, demandVars, meReq, otpVars>>

\* d1 is ACTIVE or CLOSED and has an offer of p2 or none; p2 has no balance
InitOrder ==
  /\ balance = [u \in Providers |-> InitialBalance(u)]
  /\ demandStatus \in [Demands -> {"ACTIVE", "CLOSED"}]
  /\ demandStatus["d2"] = "ACTIVE"
  /\ rate = [d \in Demands |-> {10}]
  /\ \E n \in 0..1 :
       /\ offers = [id \in 1..n |->
                      [demandId |-> "d1", providerId |-> "p2",
                       price |-> 5000, status |-> "PENDING",
                       providerCompleted |-> FALSE, by |-> 0]]
       /\ offerSeq = n
  /\ notifications = {}
  /\ rowLock = [u \in Providers |-> 0]
  /\ panelOps = 0
  /\ req = [r \in Reqs |-> NoReq]
  /\ InitVisibility

\* concurrent offer creations beside the deletion of a provider
NextOrder ==
  \/ CreateOffer
  \/ \E caller \in Users, id \in Providers : AdminDeleteUser(caller, id)

SpecOrder == InitOrder /\ [][NextOrder]_vars


\* p1's offer on the CLOSED demand d1 is ACCEPTED, d2 is ACTIVE and has no
\* offer; r1 has reviewed p1 with rating 5
InitBalance ==
  /\ balance = [u \in Providers |-> InitialBalance(u)]
  /\ demandStatus = [d \in Demands |-> IF d = "d1" THEN "CLOSED" ELSE "ACTIVE"]
  /\ rate = [d \in Demands |-> {10}]
  /\ offers = <<[demandId |-> "d1", providerId |-> "p1", price |-> 5000,
                 status |-> "ACCEPTED", providerCompleted |-> FALSE,
                 by |-> 0]>>
  /\ notifications = {}
  /\ offerSeq = 1
  /\ rowLock = [u \in Providers |-> 0]
  /\ panelOps = 0
  /\ req = [r \in Reqs |-> NoReq]
  /\ parentId = ExampleTree
  /\ userCategories = [u \in Users |-> {}]
  /\ demandRow = [d \in Demands |->
                    [categoryId |-> demandCategoryId(d), isApproved |-> TRUE]]
  /\ view = NoView
  /\ catReq = [r \in Reqs |-> NoCatReq]
  /\ InitUsers /\ InitDemands /\ InitMe /\ InitOtp
  /\ reviews = <<[reviewerId |-> "r1", reviewedUserId |-> "p1",
                  rating |-> 5]>>
  /\ reviewSeq = 1
  /\ userRating = [u \in Users |->
                     IF u = "p1"
                     THEN [sum |-> 5, length |-> 1, ratingCount |-> 1]
                     ELSE NoRating]
  /\ revReq = [r \in Reqs |-> NoRevReq]

\* p1 offers 7500 on d2, r1 accepts or rejects that offer, p1 completes its
\* accepted offer on d1, p1 edits the price of its new offer or deletes it,
\* the admin edits p1, p1 replaces its subscriptions, p2 reviews p1 or r1
\* deletes its review of p1
NextBalance ==
  \/ \E r \in Reqs :
        CreateOfferFindDemand(r, "p1", "d2",
                              [type |-> "number", num |-> 7500, str |-> <<>>])
  \/ \E r \in Reqs : CreateOfferFindExisting(r)
  \/ \E r \in Reqs : CreateOfferFindProvider(r)
  \/ \E r \in Reqs : CreateOfferTxUpdate(r)
  \/ \E r \in Reqs : CreateOfferTxCreate(r)
  \/ \E r \in Reqs : CreateOfferNotify(r)
  \/ \E r \in Reqs, status \in {"ACCEPTED", "REJECTED"} :
        UpdateOfferStatusFind(r, "r1", 2, status)
  \/ \E r \in Reqs : UpdateOfferStatusUpdate(r)
  \/ \E r \in Reqs : UpdateOfferStatusNotify(r)
  \/ \E r \in Reqs : UpdateOfferStatusCloseDemand(r)
  \/ \E r \in Reqs : CompleteOfferFind(r, "p1", 1)
  \/ \E r \in Reqs : CompleteOfferUpdate(r)
  \/ \E r \in Reqs : CompleteOfferNotify(r)
  \/ UpdateOffer("p1", 2, [price |-> {5000}, status |-> {}])
  \/ DeleteOffer("p1", 2)
  \/ \E body \in UserEdits : AdminUpdateUser("a1", "p1", body)
  \/ UpdateMeDeleteMany("p1", {"C"})
  \/ UpdateMeFindMany
  \/ UpdateMeCreateMany
  \/ UpdateMeUpdate
  \/ CreateReviewFindUser(1, "p2", "p1", 1)
  \/ CreateReviewFindExisting(1)
  \/ CreateReviewCreate(1)
  \/ ReviewFindMany(1)
  \/ CreateReviewUpdate(1)
  \/ DeleteReviewFind(1, "r1", 1)
  \/ DeleteReviewDelete(1)
  \/ DeleteReviewUpdate(1)

SpecBalance == InitBalance /\ [][NextBalance]_vars


\* ----------------------------------------------------------------- claims

RECURSIVE SumCommission(_)
SumCommission(rs) ==
  IF rs = {} THEN 0
  ELSE LET r == CHOOSE x \in rs : TRUE
       IN req[r].commissionAmount + SumCommission(rs \ {r})

\* the create requests of provider p for demand d that got past validation
CreatesOf(p, d) ==
  {r \in Reqs : req[r].kind = "create" /\ req[r].caller = p
                 /\ req[r].demandId = d}

\* the Offer rows inserted by request r
RowsOf(r) == {id \in DOMAIN offers : offers[id].by = r}

\* the balance check of request r has been evaluated
BalanceChecked(r) ==
  /\ req[r].kind = "create"
  /\ \/ req[r].pc \in {"txUpdate", "txCreate", "notify"}
     \/ req[r].pc = "done" /\ (req[r].err = "balance" \/ req[r].committed)

\* C1: of the POST /api/offers requests of one provider for one demand, in
\* any interleaving, at most one is answered 201, every other one is
\* answered 400, and the provider is debited at most once for the demand.
C1_OneOfferPerProviderAndDemand ==
  \A p \in Providers, d \in Demands :
    /\ Cardinality({r \in CreatesOf(p, d) : req[r].resp = 201}) <= 1
    /\ \A r \in CreatesOf(p, d) : req[r].pc = "done" => req[r].resp \in {201, 400}
    /\ Cardinality({r \in CreatesOf(p, d) : req[r].committed}) <= 1

\* C3: starting from a non-negative balance, no interleaving of a
\* provider's offer creations makes the stored balance negative.
C3_BalanceNeverNegative ==
  \A p \in Providers :
    (\A r, t \in Reqs :
       (r # t /\ req[r].kind = "create" /\ req[t].kind = "create"
        /\ req[r].caller = p /\ req[t].caller = p)
         => req[r].demandId # req[t].demandId)
      => balance[p] >= 0

\* C4: with every other precondition met, POST /api/offers answers 400 and
\* writes nothing if the balance it read is below the commission; otherwise
\* it answers 201, inserts exactly one Offer row and the balance goes down
\* by exactly the commission.
C4_BalanceGuard ==
  /\ \A r \in Reqs :
       BalanceChecked(r) =>
         /\ req[r].pc = "done" =>
              IF req[r].balance < req[r].commissionAmount
              THEN /\ req[r].resp = 400 /\ req[r].err = "balance"
                   /\ RowsOf(r) = {} /\ ~req[r].committed
              ELSE /\ req[r].resp = 201
                   /\ Cardinality(RowsOf(r)) = 1 /\ req[r].committed
         /\ req[r].pc # "done" => req[r].balance >= req[r].commissionAmount
  /\ \A p \in Providers :
       balance[p] = InitialBalance(p) -
         SumCommission({r \in Reqs : req[r].kind = "create"
                                     /\ req[r].caller = p /\ req[r].committed})

\* one request was answered 201 after a debit, another 400 for its balance
C4_Witness ==
  \E r, t \in Reqs :
    /\ req[r].kind = "create" /\ req[r].resp = 201
    /\ req[r].commissionAmount > 0
    /\ balance[req[r].caller] =
         InitialBalance(req[r].caller) - req[r].commissionAmount
    /\ req[t].kind = "create" /\ req[t].resp = 400 /\ req[t].err = "balance"

\* C5: the debit and the Offer insert of one creation take effect together
\* or not at all, also when a write of the transaction fails: what a
\* provider has been debited is the sum of the commissions of the rows that
\* the provider's POST /api/offers requests inserted.
C5_DebitIffInsert ==
  \A p \in Providers :
    InitialBalance(p) - balance[p] =
      SumCommission({r \in Reqs : req[r].kind = "create" /\ req[r].caller = p
                                  /\ RowsOf(r) # {}})

\* a transaction failed after its decrement and left neither debit nor row,
\* while another one committed both
C5_Witness ==
  \E r, t \in Reqs :
    /\ req[r].kind = "create" /\ req[r].resp = 500 /\ req[r].txDebit > 0
    /\ RowsOf(r) = {}
    /\ req[t].kind = "create" /\ req[t].caller = req[r].caller
    /\ RowsOf(t) # {} /\ req[t].commissionAmount > 0
    /\ balance[req[r].caller] =
         InitialBalance(req[r].caller) - req[t].commissionAmount

\* C6: the commission of an offer of price P on a demand whose category has
\* rate R is (P / 1000) * R, that is P * R thousandths, and 0 when the
\* category has no rate; it is the amount charged.  P = 7500 and R = 10
\* give 75.
C6_CommissionFormula ==
  \A r \in Reqs :
    BalanceChecked(r) =>
      LET P == req[r].price
          R == rate[req[r].demandId]
      IN /\ P >= 0
         /\ R = {} => req[r].commissionAmount = 0
         /\ \A x \in R : req[r].commissionAmount = P * x
         /\ (P = 7500 /\ R = {10}) => req[r].commissionAmount = 75 * 1000
         /\ req[r].pc \in {"txCreate", "notify"} \/ req[r].committed =>
              req[r].txDebit = req[r].commissionAmount

\* 7500 at rate 10 was charged 75, and an offer on a demand without a rate 0
C6_Witness ==
  \E r, t \in Reqs :
    /\ req[r].kind = "create" /\ req[r].resp = 201
    /\ req[r].price = 7500 /\ rate[req[r].demandId] = {10}
    /\ req[r].commissionAmount = 75000
    /\ req[t].kind = "create" /\ req[t].resp = 201
    /\ rate[req[t].demandId] = {} /\ req[t].commissionAmount = 0
    /\ req[t].price > 0

\* C2: in every reachable state there is at most one Offer row for each
\* pair of demand and provider, whichever operations created the rows.
C2_OfferUniquePerDemandAndProvider ==
  \A i, j \in DOMAIN offers :
    i # j => ~(/\ offers[i].demandId = offers[j].demandId
               /\ offers[i].providerId = offers[j].providerId)

\* no accept or reject request is between its writes
Quiescent == \A r \in Reqs : req[r].kind = "status" => req[r].pc = "done"

\* C7: a demand becomes CLOSED exactly when one of its offers becomes
\* ACCEPTED: no step closes a demand none of whose offers is ACCEPTED, and,
\* once no accept request is in progress, every ACCEPTED offer belongs to a
\* CLOSED demand.
C7_ClosedExactlyWhenAccepted ==
  [][/\ \A d \in Demands :
          (demandStatus[d] # "CLOSED" /\ demandStatus'[d] = "CLOSED") =>
            \E id \in DOMAIN offers' :
              offers'[id].demandId = d /\ offers'[id].status = "ACCEPTED"
    /\ Quiescent' =>
         \A id \in DOMAIN offers' :
           offers'[id].status = "ACCEPTED" =>
             demandStatus'[offers'[id].demandId] = "CLOSED"]_vars

\* C8: an accept through PATCH /api/offers/:id/status sets the offer to
\* ACCEPTED and its demand to CLOSED; no step of an accept or reject request
\* changes another offer (siblings keep their status) or another demand.
C8_AcceptFrame ==
  [][\A r \in Reqs :
       (req'[r].kind = "status" /\ req'[r] # req[r]) =>
         LET id == req'[r].offerId
             d == req'[r].demandId
         IN /\ DOMAIN offers' = DOMAIN offers
            /\ \A j \in DOMAIN offers \ {id} : offers'[j] = offers[j]
            /\ \A e \in Demands \ {d} : demandStatus'[e] = demandStatus[e]
            /\ (req[r].pc = "updateOffer" /\ req'[r].pc = "notify") =>
                 /\ offers'[id] = [offers[id] EXCEPT !.status = req[r].status]
                 /\ offers[id].demandId = d
            /\ req'[r].status = "REJECTED" => demandStatus' = demandStatus
            /\ (req'[r].resp = 200 /\ req'[r].status = "ACCEPTED") =>
                 /\ req'[r].committed
                 /\ demandStatus'[d] = "CLOSED"]_vars

\* an accept was answered 200: its offer is ACCEPTED, its demand CLOSED and
\* the sibling offer on the demand is still PENDING
C8_Witness ==
  \E r \in Reqs, id, j \in DOMAIN offers :
    /\ req[r].kind = "status" /\ req[r].status = "ACCEPTED"
    /\ req[r].resp = 200 /\ req[r].offerId = id
    /\ offers[id].status = "ACCEPTED"
    /\ demandStatus[offers[id].demandId] = "CLOSED"
    /\ j # id /\ offers[j].demandId = offers[id].demandId
    /\ offers[j].status = "PENDING"
    /\ \E e \in Demands : demandStatus[e] = "ACTIVE"

\* C9: PATCH /api/offers/:id/status by a caller who does not own the
\* offer's demand is answered 403 and changes no offer, no demand and no
\* notification; the answered request does nothing more.
C9_NonOwnerForbidden ==
  [][\A r \in Reqs :
       /\ (/\ req[r].pc = "idle" /\ req'[r].kind = "status"
           /\ req'[r].offerId \in DOMAIN offers
           /\ demandUserId(offers[req'[r].offerId].demandId) # req'[r].caller)
            => /\ req'[r].pc = "done" /\ req'[r].resp = 403
               /\ UNCHANGED <<offers, demandStatus, notifications>>
       /\ req[r].pc = "done" => req'[r] = req[r]]_vars

\* a provider's reject of an offer on r1's demand was answered 403
C9_Witness ==
  \E r \in Reqs :
    /\ req[r].kind = "status" /\ req[r].resp = 403
    /\ req[r].caller # demandUserId(req[r].demandId)
    /\ req[r].demandId \in Demands

\* C10: an offer's status changes only along PENDING -> ACCEPTED,
\* PENDING -> REJECTED and ACCEPTED -> COMPLETED.
C10_StatusStateMachine ==
  [][\A id \in DOMAIN offers \cap DOMAIN offers' :
       offers'[id].status # offers[id].status =>
         <<offers[id].status, offers'[id].status>> \in
           {<<"PENDING", "ACCEPTED">>, <<"PENDING", "REJECTED">>,
            <<"ACCEPTED", "COMPLETED">>}]_vars

\* C11: an offer gets status COMPLETED only by the update of a
\* PATCH /api/offers/:id/complete request of the offer's own provider, made
\* while the offer is ACCEPTED; no other step writes COMPLETED or inserts a
\* COMPLETED row.
C11_CompletedOnlyByProvider ==
  [][\A id \in DOMAIN offers' :
       (/\ offers'[id].status = "COMPLETED"
        /\ IF id \in DOMAIN offers THEN offers[id].status # "COMPLETED"
           ELSE TRUE)
         => /\ id \in DOMAIN offers
            /\ offers[id].status = "ACCEPTED"
            /\ \E r \in Reqs :
                 /\ req[r].kind = "complete" /\ req[r].pc = "updateOffer"
                 /\ req'[r].pc = "notify" /\ req[r].offerId = id
                 /\ req[r].caller = offers[id].providerId]_vars

\* C12: PATCH /api/offers/:id/complete goes on to its update only if, on
\* the row it read, the caller is the provider, the status is ACCEPTED and
\* providerCompleted is false, and the update sets providerCompleted and
\* status COMPLETED; otherwise it is answered 403 (not the provider) or 400
\* and changes no offer and no notification; an answered request does
\* nothing more.
C12_CompleteGuards ==
  [][\A r \in Reqs :
       /\ (/\ req[r].pc = "idle" /\ req'[r].kind = "complete"
           /\ req'[r].offerId \in DOMAIN offers)
            => LET o == offers[req'[r].offerId]
                   c == req'[r].caller
               IN IF /\ o.providerId = c /\ o.status = "ACCEPTED"
                     /\ ~o.providerCompleted
                  THEN req'[r].pc = "updateOffer"
                  ELSE /\ req'[r].pc = "done"
                       /\ req'[r].resp = IF o.providerId # c THEN 403 ELSE 400
                       /\ UNCHANGED <<offers, notifications>>
       /\ (/\ req[r].kind = "complete" /\ req[r].pc = "updateOffer"
           /\ req'[r].pc = "notify")
            => offers' = [offers EXCEPT
                            ![req[r].offerId].providerCompleted = TRUE,
                            ![req[r].offerId].status = "COMPLETED"]
       /\ (req'[r].kind = "complete" /\ req'[r].resp = 200)
            => req'[r].committed
       /\ (req[r].kind = "complete" /\ req[r].pc = "done")
            => req'[r] = req[r]]_vars

\* the provider's complete was answered 200 and left the offer COMPLETED,
\* and a second complete of the same offer was answered 400
C12_Witness ==
  \E r, t \in Reqs :
    /\ req[r].kind = "complete" /\ req[r].resp = 200
    /\ req[r].offerId \in DOMAIN offers
    /\ offers[req[r].offerId].status = "COMPLETED"
    /\ offers[req[r].offerId].providerCompleted
    /\ offers[req[r].offerId].providerId = req[r].caller
    /\ req[t].kind = "complete" /\ req[t].resp = 400
    /\ req[t].offerId = req[r].offerId

\* the complete requests of the offer's provider for offer id
CompletesOf(id) ==
  {r \in Reqs : /\ req[r].kind = "complete" /\ req[r].offerId = id
                /\ id \in DOMAIN offers
                /\ req[r].caller = offers[id].providerId}

\* C13: of the complete requests of an offer's provider, in any
\* interleaving, at most one is answered 200 and every other one 400, and
\* at most one OFFER_COMPLETED notification exists per offer.
C13_CompleteOnce ==
  \A id \in OfferIds :
    /\ Cardinality({r \in CompletesOf(id) : req[r].resp = 200}) <= 1
    /\ \A r \in CompletesOf(id) :
         req[r].pc = "done" => req[r].resp \in {200, 400}
    /\ Cardinality({n \in notifications :
                      n.type = "OFFER_COMPLETED" /\ n.offerId = id}) <= 1

\* C14: a request whose primary write was committed is answered with its
\* success response, also when the insert of its notification fails.
C14_NotificationFailureSwallowed ==
  \A r \in Reqs :
    (req[r].committed /\ req[r].pc = "done") => req[r].resp \in {200, 201}

\* the categories in set S and all their descendants, found from each
\* category by following parentId upwards
categoryClosure(S) ==
  S \cup {c \in DOMAIN parentId : ancestorsOf(parentId, c) \cap S # {}}

\* the status query parameter admits demand d
StatusMatches(d) == view.status = {} \/ demandStatus[d] \in view.status

\* C15: on an acyclic category tree, for a provider with a non-empty
\* subscription set S, the allowed category set of GET /api/demands is S
\* and all transitive descendants of S and nothing else, and without a
\* category filter every demand listed is in a category of that set.
C15_AllowedSetIsClosure ==
  (/\ view.kind = "list" /\ userType(view.caller) = "PROVIDER"
   /\ userCategories[view.caller] # {} /\ Acyclic(parentId))
    => /\ view.allowed = categoryClosure(userCategories[view.caller])
       /\ view.category = {} =>
            \A d \in view.demands :
              demandRow[d].categoryId \in
                categoryClosure(userCategories[view.caller])

\* subscribed to A with children B, C and grandchild D, the provider was
\* allowed exactly A, B, C, D and was listed the demand in D
C15_Witness ==
  /\ view.kind = "list" /\ view.caller = "p1" /\ view.category = {}
  /\ parentId = ExampleTree /\ userCategories["p1"] = {"A"}
  /\ view.allowed = {"A", "B", "C", "D"}
  /\ "d1" \in view.demands /\ demandRow["d1"].categoryId = "D"

\* C16: for a provider with a subscription, GET /api/demands/:id on an
\* existing approved demand is answered 200 exactly if the demand's
\* category is in the provider's category closure, and 403 otherwise.
C16_FetchMatchesClosure ==
  (/\ view.kind = "get" /\ userType(view.caller) = "PROVIDER"
   /\ userCategories[view.caller] # {} /\ Acyclic(parentId)
   /\ view.demandId \in Demands)
    => (demandRow[view.demandId].isApproved =>
          /\ view.resp \in {200, 403}
          /\ view.resp = 200 <=>
               demandRow[view.demandId].categoryId \in
                 categoryClosure(userCategories[view.caller]))

\* C17: every demand that GET /api/demands or GET /api/demands/:id returns
\* to a provider is approved, whatever the subscriptions and the filters.
C17_ProviderSeesOnlyApproved ==
  (view.kind \in {"list", "get"} /\ userType(view.caller) = "PROVIDER")
    => \A d \in view.demands : demandRow[d].isApproved

\* a provider's listing returned the approved demand and left out an
\* unapproved one that the category and status filters admit
C17_Witness ==
  /\ view.kind = "list" /\ userType(view.caller) = "PROVIDER"
  /\ view.demands # {}
  /\ \E d \in Demands \ view.demands :
       /\ ~demandRow[d].isApproved
       /\ StatusMatches(d)
       /\ \/ userCategories[view.caller] = {}
          \/ demandRow[d].categoryId \in view.allowed
       /\ view.category = {}

\* C18: for a provider without UserCategory rows the listing of
\* GET /api/demands is every approved demand that the status filter admits:
\* of every category without a category filter, of exactly the named
\* category with one.
C18_NoSubscriptionNoRestriction ==
  (/\ view.kind = "list" /\ userType(view.caller) = "PROVIDER"
   /\ userCategories[view.caller] = {})
    => /\ view.category = {} =>
            view.demands =
              {d \in Demands : demandRow[d].isApproved /\ StatusMatches(d)}
       /\ \A c \in Categories :
            view.category = {c} =>
              view.demands =
                {d \in Demands : /\ demandRow[d].isApproved /\ StatusMatches(d)
                                 /\ demandRow[d].categoryId = c}

\* a provider without subscriptions was listed demands of two categories
C18_Witness ==
  /\ view.kind = "list" /\ userType(view.caller) = "PROVIDER"
  /\ userCategories[view.caller] = {} /\ view.category = {}
  /\ \E d, e \in view.demands :
       demandRow[d].categoryId # demandRow[e].categoryId

\* C19: for a caller who is not a provider, GET /api/demands returns only
\* the caller's own demands, and GET /api/demands/:id applies no category
\* check: on an existing approved demand it is answered 200.
C19_ReceiverFilteredByOwnership ==
  userType(view.caller) # "PROVIDER" =>
    /\ view.kind = "list" =>
         \A d \in view.demands : demandUserId(d) = view.caller
    /\ (/\ view.kind = "get" /\ view.demandId \in Demands)
         => (demandRow[view.demandId].isApproved => view.resp = 200)

\* C20: in every reachable state no category is its own ancestor, whatever
\* category creations and updates ran and however they interleaved.
C20_CategoryTreeAcyclic == Acyclic(parentId)

\* C22: a PATCH /api/offers/:id request of a user who is not an admin
\* leaves the price and the status of the offer as they were.
C22_OfferEditByAdminOnly ==
  [][\A caller \in Users \ Admins, id \in OfferIds, body \in OfferEdits :
       UpdateOffer(caller, id, body) =>
         /\ offers'[id].price = offers[id].price
         /\ offers'[id].status = offers[id].status]_vars

\* C27: at most one offer of a demand is ACCEPTED or COMPLETED, whatever
\* accept requests the demand owner sends and however they interleave.
C27_OneAcceptedPerDemand ==
  \A d \in Demands :
    Cardinality({id \in DOMAIN offers :
                   /\ offers[id].demandId = d
                   /\ offers[id].status \in {"ACCEPTED", "COMPLETED"}}) <= 1

\* C28: the newBalance of a 201 answer of POST /api/offers, balance read
\* minus commission, is the stored balance right after that request's
\* commit, also when the same provider creates offers on other demands
\* concurrently (requests of one provider for one demand are left out).
C28_NewBalanceIsStoredBalance ==
  [][\A r \in Reqs :
       (/\ req[r].kind = "create" /\ req[r].pc = "txCreate"
        /\ req'[r].pc = "notify"
        /\ \A t \in Reqs \ {r} :
             (req[t].kind = "create" /\ req[t].caller = req[r].caller)
               => req[t].demandId # req[r].demandId)
         => balance'[req[r].caller] =
              req[r].balance - req[r].commissionAmount]_vars

\* no review handler is between two of its statements
ReviewQuiescent == \A r \in Reqs : revReq[r].pc \in {"idle", "done"}

\* C21: once no review request is in progress, ratingCount of a user is the
\* number of Review rows about the user, and rating is the mean of their
\* ratings, 0 if there are none.
C21_RatingMatchesReviews ==
  ReviewQuiescent =>
    \A u \in Users :
      LET ids == reviewsOf(u)
      IN /\ userRating[u].ratingCount = Cardinality(ids)
         /\ userRating[u].length > 0
         /\ userRating[u].sum * Cardinality(ids) =
              sumRatings(ids) * userRating[u].length
         /\ ids = {} => userRating[u].sum = 0

\* C23: a demand made by POST /api/demands starts with isApproved false, and
\* a PUT /api/demands/:id request of a user who is not an admin leaves the
\* isApproved flag of every demand as it was.
C23_ApprovedOnlyByAdmin ==
  [][/\ \A id \in DOMAIN demandStore' \ DOMAIN demandStore :
          ~demandStore'[id].isApproved
     /\ \A caller \in Users \ Admins, id \in DemandIds, body \in DemandBodies :
          PutDemand(caller, id, body) =>
            \A i \in DOMAIN demandStore :
              demandStore'[i].isApproved = demandStore[i].isApproved]_vars

\* C25: the demand numbers POST /api/demands has assigned are 7-digit
\* numbers and strictly increasing in the order of creation, so pairwise
\* distinct, whatever creations and deletions were made.
C25_DemandNumbersIncrease ==
  /\ \A id \in DOMAIN demandStore :
       demandStore[id].demandNumber \in FirstDemandNumber..LastDemandNumber
  /\ \A i, j \in DOMAIN demandStore :
       i < j => demandStore[i].demandNumber < demandStore[j].demandNumber

\* C29: a listing of GET /api/demands without a category filter, made by a
\* provider whose PUT /api/users/me replaces a non-empty subscription set by
\* a non-empty one, holds only demands whose category is in the closure of
\* the old or of the new set.
C29_ListingDuringReplacement ==
  (/\ view.kind = "list" /\ view.category = {}
   /\ meReq.pc # "idle" /\ view.caller = meReq.caller
   /\ meReq.oldCategories # {}
   /\ meReq.categories \cap DOMAIN parentId # {})
    => \A d \in view.demands :
         demandRow[d].categoryId \in
           categoryClosure(meReq.oldCategories) \cup
           categoryClosure(meReq.categories \cap DOMAIN parentId)

\* C30: verifyOTP returns true only for the code the most recent sendOTP of
\* the normalized number stored, not later than 5 minutes after that call
\* and not accepted before; the entry is gone afterwards.
C30_OtpAcceptedOnce ==
  [][\A phoneNumber \in Phones, otp \in Otps :
       (VerifyOTP(phoneNumber, otp) /\ otpLog'.result) =>
         LET phone == cleanPhone(phoneNumber)
         IN /\ phone \in DOMAIN otpLog.sentAt
            /\ otp = generateOTP
            /\ now <= otpLog.sentAt[phone] + OtpLifetime
            /\ phone \notin otpLog.accepted
            /\ phone \notin DOMAIN otpStore']_vars

\* a code sent under one spelling of a number was accepted under another
\* spelling at the last minute of its life
C30_Witness ==
  /\ otpLog.op = "verify" /\ otpLog.result
  /\ otpLog.phone = <<"0", "5", "3", "1">>
  /\ now = otpLog.sentAt[cleanPhone(otpLog.phone)] + OtpLifetime

\* the writes of the offer handlers
OfferTables == <<balance, offers, offerSeq, notifications, demandStatus>>

\* C24: POST /api/offers checks, in this order, that the demand exists (404),
\* that it is ACTIVE (400), that the provider has no offer on it (400), that
\* the provider exists (404) and that the balance covers the commission
\* (400); the first check that fails answers, whatever the later ones would
\* say, and a request answered that way writes nothing.
C24_PreconditionOrder ==
  [][/\ \A r \in Reqs, caller \in Providers,
          d \in Demands \cup {MissingDemand}, price \in PriceBodies :
          (CreateOfferFindDemand(r, caller, d, price) /\ parsedPrice(price) >= 0)
            => IF d \notin Demands
               THEN req'[r].resp = 404 /\ req'[r].err = "demand"
               ELSE IF demandStatus[d] # "ACTIVE"
               THEN req'[r].resp = 400 /\ req'[r].err = "inactive"
               ELSE req'[r].pc = "findExisting"
     /\ \A r \in Reqs :
          CreateOfferFindExisting(r)
            => IF \E id \in DOMAIN offers :
                    /\ offers[id].demandId = req[r].demandId
                    /\ offers[id].providerId = req[r].caller
               THEN req'[r].resp = 400 /\ req'[r].err = "duplicate"
               ELSE req'[r].pc = "findProvider"
     /\ \A r \in Reqs :
          CreateOfferFindProvider(r)
            => IF ~userExists[req[r].caller]
               THEN req'[r].resp = 404 /\ req'[r].err = "provider"
               ELSE IF balance[req[r].caller] <
                         commissionAmount(req[r].price, req[r].rate)
               THEN req'[r].resp = 400 /\ req'[r].err = "balance"
               ELSE req'[r].pc = "txUpdate"
     /\ \A r \in Reqs :
          (req[r].pc # "done" /\ req'[r].kind = "create"
           /\ req'[r].pc = "done" /\ req'[r].resp \in {400, 404})
            => UNCHANGED OfferTables]_vars

\* p2 asked for a second offer on the CLOSED demand d1 without the balance
\* for it and was answered that the demand is inactive; and a request was
\* answered that the provider is missing
C24_Witness ==
  /\ \E r \in Reqs :
       /\ req[r].caller = "p2" /\ req[r].demandId = "d1"
       /\ req[r].resp = 400 /\ req[r].err = "inactive"
       /\ existingOffer("d1", "p2")
       /\ balance["p2"] < commissionAmount(req[r].price, rate["d1"])
  /\ \E r \in Reqs : req[r].resp = 404 /\ req[r].err = "provider"

\* C26: a step changes the balance of a user only if it is the commit of
\* an offer creation of that user, and it makes the balance smaller: offer
\* accept, reject, complete, edit and deletion, the admin's user edit, the
\* profile update and review creation and deletion leave every balance as
\* it was.
C26_BalanceOnlyDebited ==
  [][\A u \in Providers :
       balance'[u] # balance[u] =>
         /\ balance'[u] < balance[u]
         /\ \E r \in Reqs :
              /\ req[r].kind = "create" /\ req[r].caller = u
              /\ req[r].pc = "txCreate" /\ req'[r].pc = "notify"
              /\ req'[r].committed]_vars

\* p1 was debited for an offer while the admin edited a user with a
\* balance in the body, p1's subscriptions were replaced and a review
\* request about p1 was answered
C26_Witness ==
  /\ balance["p1"] < InitialBalance("p1")
  /\ panelOps > 0
  /\ meReq.pc = "done"
  /\ revReq[1].pc = "done" /\ revReq[1].resp \in {200, 201}
  /\ \E r \in Reqs : req[r].kind \in {"status", "complete"} /\ req[r].pc = "done"

====
